---- MODULE Spec2Model ----
(***************************************************************************)
(* Pronunciation matching engine of aussie-english-practice                *)
(* (useVoicePractice: normalizeString, calculateSimilarity,                *)
(* calculateMatch).  A JavaScript string is modelled as a sequence of      *)
(* one-character strings.                                                  *)
(***************************************************************************)
EXTENDS Integers, Sequences, FiniteSets

VARIABLES
    text,          \* SpecNorm: the string normalizeString is applied to
    normCalls,     \* SpecNorm: number of normalizeString calls applied to text
    str1,          \* SpecSim: first argument of calculateSimilarity
    str2,          \* SpecSim: second argument of calculateSimilarity
    simResult,     \* SpecSim: value returned by calculateSimilarity, or NoResult
    target,        \* Spec: argument target of calculateMatch
    spoken,        \* Spec: argument spoken of calculateMatch
    alternatives,  \* Spec: argument alternatives of calculateMatch
    result,        \* Spec: VoicePracticeResult returned by calculateMatch, or NoResult
    progress,      \* SpecReview: stored CardProgress of every catalog card, or Absent
    now,           \* SpecReview: the clock, in days
    call,          \* SpecReview: the latest call of the progress engine and its result
    currentIndex,  \* SpecDeck: the cursor of VocabularyReview into the current deck
    isFlipped,     \* SpecDeck: whether the current flashcard shows its back
    sessionStats,  \* SpecDeck: reviewed and correct counts of the review session
    subscriptions, \* SpecApi: table subscriptions, the plan of every user
    practice_sessions, \* SpecApi: table practice_sessions, in insertion order
    usage_records, \* SpecApi: table usage_records, one row per user and date
    clock,         \* SpecApi: the server clock, in seconds
    http,          \* SpecApi: the latest request and the response it was given
    sessionFeedback, \* SpecFeedback: the state of the SessionFeedback wizard
    propCall, \* SpecFeedback: the latest call of onSubmit or onSkip
    authState, \* SpecAuth: the AuthState of useAuthProvider
    storedToken, \* SpecAuth: localStorage item aussie_auth_token, or Absent
    pending, \* SpecAuth: the calls awaiting their response
    authCalls, \* SpecAuth: number of asynchronous calls made
    authEvent, \* SpecAuth: the call that resumed last and what it did
    signedOut, \* SpecAuth: logout() ran and no login or register succeeded since
    voice, \* SpecVoice: isListening, transcript, result and error of useVoicePractice
    targetWordRef, \* SpecVoice: targetWordRef.current
    recognizer, \* SpecVoice: the SpeechRecognition object and the call that began its run
    restartTimers, \* SpecVoice: pending restart timers, oldest first
    listenCalls, \* SpecVoice: number of startListening calls made
    lastScore, \* SpecVoice: the final result scored last and the target used
    accounts, \* SpecRegister: tables users and subscriptions, in insertion order
    emailIsUnique, \* SpecRegister: whether the schema declares users.email UNIQUE
    registrations, \* SpecRegister: the register requests, each with its position and answer
    viewState, \* SpecPractice: the view of AussieEnglishPractice
    backendSessionId, \* SpecPractice: backendSessionId.current, or Absent
    practice, \* SpecPractice: the awaits startSession and endSession stand at
    connected, \* SpecPractice: whether the conversation is connected
    signedIn, \* SpecPractice: isAuthenticated now and in the first render
    obtained, \* SpecPractice: ids returned by startBackendSession
    recorded \* SpecPractice: ids passed to recordSessionUsage

vars == <<text, normCalls, str1, str2, simResult,
          target, spoken, alternatives, result, progress, now, call,
          currentIndex, isFlipped, sessionStats, subscriptions, practice_sessions, usage_records, clock, http,
          sessionFeedback, propCall,
          authState, storedToken, pending, authCalls, authEvent, signedOut,
          voice, targetWordRef, recognizer, restartTimers, listenCalls, lastScore,
          accounts, emailIsUnique, registrations,
          viewState, backendSessionId, practice, connected, signedIn, obtained, recorded>>

normVars == <<text, normCalls>>
simVars == <<str1, str2, simResult>>
matchVars == <<target, spoken, alternatives, result>>
reviewVars == <<progress, now, call>>
deckVars == <<currentIndex, isFlipped, sessionStats>>
apiVars == <<subscriptions, practice_sessions, usage_records, clock, http>>
feedbackVars == <<sessionFeedback, propCall>>
authVars == <<authState, storedToken, pending, authCalls, authEvent, signedOut>>
voiceVars == <<voice, targetWordRef, recognizer, restartTimers, listenCalls, lastScore>>
registerVars == <<accounts, emailIsUnique, registrations>>
practiceVars == <<viewState, backendSessionId, practice, connected, signedIn, obtained, recorded>>

\* A call that has not returned yet has result NoResult; a call that returned v
\* has result Returned(v).
NoResult == <<>>
Returned(v) == <<v>>

(***************************************************************************)
(* Bounds of the input sets.                                               *)
(***************************************************************************)
MaxNormLen == 3     \* longest raw string handed to normalizeString
MaxNormCalls == 2   \* normalizeString applied at most this often in a row
MaxSimLen == 3      \* longest string handed to calculateSimilarity
MaxLen == 5         \* longest letters-only phrase handed to calculateMatch
MaxRunLen == 7      \* longest one-letter phrase handed to calculateMatch
MaxRawLen == 1      \* longest raw (unnormalized) phrase handed to calculateMatch
MaxNow == 1         \* last day the clock of SpecReview reaches
MaxReviewed == 2    \* most cards rated in one review session of SpecDeck
MaxSessions == 2    \* most rows of practice_sessions in SpecApi
MaxTicks == 2       \* most steps of the server clock in SpecApi
TickSeconds == 60   \* seconds in one step of the server clock
MaxLongRun == 23    \* longest run of one letter given to calculateMatch
MaxAuthCalls == 3   \* most asynchronous calls of the auth hook in SpecAuth
MaxListenCalls == 3 \* most startListening calls in SpecVoice
MaxRegistrations == 3 \* most register requests in SpecRegister
MaxBackendSessions == 2 \* most backend sessions started in SpecPractice

(***************************************************************************)
(* recognition.maxAlternatives: the most hypotheses one result carries.    *)
(***************************************************************************)
maxAlternatives == 3

(***************************************************************************)
(* Character classes: representatives of the classes the code tells apart. *)
(***************************************************************************)
LowerLetters == {"a", "b"}            \* [a-z]
UpperLetters == {"A"}                 \* letters changed by toLowerCase
Digits == {"1"}                       \* [0-9]
Whitespace == {" ", "\t"}             \* \s
Punctuation == {"!"}                  \* anything else

StrUpTo(chars, n) == UNION {[1..k -> chars] : k \in 0..n}
SeqUpTo(pool, n) == UNION {[1..k -> pool] : k \in 0..n}

Max(a, b) == IF a >= b THEN a ELSE b
Min(a, b) == IF a <= b THEN a ELSE b

(***************************************************************************)
(* String.prototype helpers used by the code.                              *)
(***************************************************************************)
lowerChar(c) == IF c = "A" THEN "a" ELSE c

toLowerCase(str) == [i \in 1..Len(str) |-> lowerChar(str[i])]

RECURSIVE trimStart(_)
trimStart(str) ==
    IF str = <<>> THEN <<>>
    ELSE IF Head(str) \in Whitespace THEN trimStart(Tail(str))
    ELSE str

RECURSIVE trimEnd(_)
trimEnd(str) ==
    IF str = <<>> THEN <<>>
    ELSE IF str[Len(str)] \in Whitespace THEN trimEnd(SubSeq(str, 1, Len(str) - 1))
    ELSE str

trim(str) == trimEnd(trimStart(str))

\* .replace(/[^a-z0-9\s]/g, '')
IsKept(c) == c \in LowerLetters \cup Digits \cup Whitespace
stripOther(str) == SelectSeq(str, IsKept)

\* .replace(/\s+/g, ' ')
RECURSIVE collapseWhitespace(_)
collapseWhitespace(str) ==
    IF str = <<>> THEN <<>>
    ELSE IF Head(str) \in Whitespace
         THEN <<" ">> \o collapseWhitespace(trimStart(Tail(str)))
         ELSE <<Head(str)>> \o collapseWhitespace(Tail(str))

normalizeString(str) == collapseWhitespace(stripOther(trim(toLowerCase(str))))

\* String.prototype.includes
includes(str, sub) ==
    \E k \in 0..(Len(str) - Len(sub)) : SubSeq(str, k + 1, k + Len(sub)) = sub

(***************************************************************************)
(* calculateSimilarity: the edit-distance matrix is filled cell by cell in *)
(* the order of the code's loops.  A cell not yet written holds Null.      *)
(***************************************************************************)
Null == "null"

Min3(a, b, c) == Min(Min(a, b), c)

\* Math.round(num / den) for num >= 0, den > 0: the nearest integer, a tie
\* going up.  The code rounds the double (1 - distance / maxLen) * 100; the
\* double and the exact quotient round alike for every maxLen below 40.
MathRound(num, den) == (2 * num + den) \div (2 * den)

\* Array(len1 + 1).fill(null).map(...) followed by the two border loops
initMatrix(len1, len2) ==
    [i \in 0..len1 |-> [j \in 0..len2 |->
        IF j = 0 THEN i ELSE IF i = 0 THEN j ELSE Null]]

\* mutant of substitutionCost: equal characters cost a substitution too
substitutionCostAlwaysOne(c1, c2) == 1

substitutionCost(c1, c2) == IF c1 = c2 THEN 0 ELSE 1

\* mutant of fillCell: the insertion term matrix[i][j - 1] + 1 is left out
fillCellNoInsertion(matrix, s1, s2, i, j) ==
    [matrix EXCEPT ![i][j] =
        Min(matrix[i - 1][j] + 1,
            matrix[i - 1][j - 1] + substitutionCost(s1[i], s2[j]))]

\* body of the inner loop: matrix[i][j] = Math.min(...)
fillCell(matrix, s1, s2, i, j) ==
    [matrix EXCEPT ![i][j] =
        Min3(matrix[i - 1][j] + 1,
             matrix[i][j - 1] + 1,
             matrix[i - 1][j - 1] + substitutionCost(s1[i], s2[j]))]

\* inner loop: for (j = 1..len2) of row i, resumed at column j
RECURSIVE fillRow(_, _, _, _, _)
fillRow(matrix, s1, s2, i, j) ==
    IF j \notin DOMAIN matrix[i] THEN matrix
    ELSE fillRow(fillCell(matrix, s1, s2, i, j), s1, s2, i, j + 1)

\* outer loop: for (i = 1..len1), resumed at row i
RECURSIVE fillMatrix(_, _, _, _)
fillMatrix(matrix, s1, s2, i) ==
    IF i \notin DOMAIN matrix THEN matrix
    ELSE fillMatrix(fillRow(matrix, s1, s2, i, 1), s1, s2, i + 1)

editMatrix(s1, s2) == fillMatrix(initMatrix(Len(s1), Len(s2)), s1, s2, 1)

\* mutant of calculateSimilarity: an empty first string always scores 0
calculateSimilarityEmptyIsZero(s1, s2) ==
    LET len1 == Len(s1)
        len2 == Len(s2)
    IN  IF len1 = 0 THEN 0
        ELSE IF len2 = 0 THEN 0
        ELSE LET distance == editMatrix(s1, s2)[len1][len2]
                 maxLen == Max(len1, len2)
             IN  MathRound((maxLen - distance) * 100, maxLen)

\* mutant of calculateSimilarity: the distance is divided by the shorter length
calculateSimilarityMinLen(s1, s2) ==
    LET len1 == Len(s1)
        len2 == Len(s2)
    IN  IF len1 = 0 THEN (IF len2 = 0 THEN 100 ELSE 0)
        ELSE IF len2 = 0 THEN 0
        ELSE LET distance == editMatrix(s1, s2)[len1][len2]
                 minLen == Min(len1, len2)
             IN  MathRound((minLen - distance) * 100, minLen)

calculateSimilarity(s1, s2) ==
    LET len1 == Len(s1)
        len2 == Len(s2)
    IN  IF len1 = 0 THEN (IF len2 = 0 THEN 100 ELSE 0)
        ELSE IF len2 = 0 THEN 0
        ELSE LET distance == editMatrix(s1, s2)[len1][len2]
                 maxLen == Max(len1, len2)
             IN  MathRound((maxLen - distance) * 100, maxLen)

(***************************************************************************)
(* calculateMatch: the rules in the order of the code's early returns.     *)
(***************************************************************************)
Feedbacks == {"perfect", "excellent", "good", "close", "partial", "tryagain", "different"}

\* mutant of matchResult: the transcript is stored normalized
matchResultNormalized(score, feedback, transcript) ==
    [score |-> score, feedback |-> feedback, transcript |-> normalizeString(transcript)]

matchResult(score, feedback, transcript) ==
    [score |-> score, feedback |-> feedback, transcript |-> transcript]

\* mutant of alternativeMatches: the alternative is compared as recognized,
\* without normalizeString
alternativeMatchesRaw(alts, normalizedTarget) ==
    \E i \in 1..Len(alts) : alts[i] = normalizedTarget

\* for (const alt of alternatives) if (normalizeString(alt) === normalizedTarget)
alternativeMatches(alts, normalizedTarget) ==
    \E i \in 1..Len(alts) : normalizeString(alts[i]) = normalizedTarget

\* mutant of containedResult: the floor of 85 is left out
containedResultNoFloor(similarity, transcript) ==
    matchResult(similarity, "good", transcript)

\* return of the "spoken contains target" rule
containedResult(similarity, transcript) ==
    matchResult(Max(similarity, 85), "good", transcript)

\* mutant of isPartialMatch: a spoken text of two characters counts too
isPartialMatchFromTwo(normalizedTarget, normalizedSpoken) ==
    includes(normalizedTarget, normalizedSpoken) /\ Len(normalizedSpoken) >= 2

\* condition of the "target contains spoken" rule
isPartialMatch(normalizedTarget, normalizedSpoken) ==
    includes(normalizedTarget, normalizedSpoken) /\ Len(normalizedSpoken) > 2

\* return of the "target contains spoken" rule
partialResult(similarity, transcript) ==
    matchResult(Max(similarity, 70), "partial", transcript)

\* mutant of thresholdResult: the tier of 40..59 is misspelt
thresholdResultMisspelt(similarity, transcript) ==
    IF similarity >= 80 THEN matchResult(similarity, "good", transcript)
    ELSE IF similarity >= 60 THEN matchResult(similarity, "close", transcript)
    ELSE IF similarity >= 40 THEN matchResult(similarity, "try again", transcript)
    ELSE matchResult(similarity, "different", transcript)

\* mutant of thresholdResult: the boundaries 80, 60, 40 fall to the lower tier
thresholdResultStrict(similarity, transcript) ==
    IF similarity > 80 THEN matchResult(similarity, "good", transcript)
    ELSE IF similarity > 60 THEN matchResult(similarity, "close", transcript)
    ELSE IF similarity > 40 THEN matchResult(similarity, "tryagain", transcript)
    ELSE matchResult(similarity, "different", transcript)

\* the final if / else-if chain on similarity
thresholdResult(similarity, transcript) ==
    IF similarity >= 80 THEN matchResult(similarity, "good", transcript)
    ELSE IF similarity >= 60 THEN matchResult(similarity, "close", transcript)
    ELSE IF similarity >= 40 THEN matchResult(similarity, "tryagain", transcript)
    ELSE matchResult(similarity, "different", transcript)

\* mutant of calculateMatch: the alternatives are checked before the exact match
calculateMatchAlternativesFirst(t, s, alts) ==
    LET normalizedTarget == normalizeString(t)
        normalizedSpoken == normalizeString(s)
        similarity == calculateSimilarity(normalizedTarget, normalizedSpoken)
    IN  IF alternativeMatches(alts, normalizedTarget)
        THEN matchResult(95, "excellent", s)
        ELSE IF normalizedTarget = normalizedSpoken
        THEN matchResult(100, "perfect", s)
        ELSE IF includes(normalizedSpoken, normalizedTarget)
        THEN containedResult(similarity, s)
        ELSE IF isPartialMatch(normalizedTarget, normalizedSpoken)
        THEN partialResult(similarity, s)
        ELSE thresholdResult(similarity, s)

\* mutant of calculateMatch: a partial match is floored at 60
calculateMatchPartialFloor60(t, s, alts) ==
    LET normalizedTarget == normalizeString(t)
        normalizedSpoken == normalizeString(s)
        similarity == calculateSimilarity(normalizedTarget, normalizedSpoken)
    IN  IF normalizedTarget = normalizedSpoken
        THEN matchResult(100, "perfect", s)
        ELSE IF alternativeMatches(alts, normalizedTarget)
        THEN matchResult(95, "excellent", s)
        ELSE IF includes(normalizedSpoken, normalizedTarget)
        THEN containedResult(similarity, s)
        ELSE IF isPartialMatch(normalizedTarget, normalizedSpoken)
        THEN matchResult(Max(similarity, 60), "partial", s)
        ELSE thresholdResult(similarity, s)

calculateMatch(t, s, alts) ==
    LET normalizedTarget == normalizeString(t)
        normalizedSpoken == normalizeString(s)
        similarity == calculateSimilarity(normalizedTarget, normalizedSpoken)
    IN  IF normalizedTarget = normalizedSpoken
        THEN matchResult(100, "perfect", s)
        ELSE IF alternativeMatches(alts, normalizedTarget)
        THEN matchResult(95, "excellent", s)
        ELSE IF includes(normalizedSpoken, normalizedTarget)
        THEN containedResult(similarity, s)
        ELSE IF isPartialMatch(normalizedTarget, normalizedSpoken)
        THEN partialResult(similarity, s)
        ELSE thresholdResult(similarity, s)

(***************************************************************************)
(* Spaced-repetition progress engine (useSlangProgress, called by          *)
(* VocabularyReview).  Time is counted in days.  A stored value that may   *)
(* be missing is Absent or Present(v).                                     *)
(***************************************************************************)
Absent == <<>>
Present(v) == <<v>>

\* slangData: the catalog, in catalog order
Catalog == <<"A", "B", "C">>
Cards == {Catalog[i] : i \in DOMAIN Catalog}

\* mutant of levelLabels: the label of the last level is missing
levelLabelsFive == <<"New", "Learning", "Familiar", "Good", "Strong">>

\* Flashcard: levelLabels[level], a JavaScript array indexed from 0
levelLabels == <<"New", "Learning", "Familiar", "Good", "Strong", "Mastered">>

\* Flashcard: the ratings the five rating buttons pass to onRate
ratingButtons == 1..5

\* mutant of interval: a level-0 card waits a day as a level-1 card does
intervalFromOne(level) == <<1, 1, 3, 7, 14, 30>>[level + 1]

\* mutant of interval: the entries of levels 2 and 3 are swapped
intervalSwapped(level) == <<0, 1, 7, 3, 14, 30>>[level + 1]

\* days until the next review, by level
interval(level) == <<0, 1, 3, 7, 14, 30>>[level + 1]

\* mutant of unseenProgress: a card never reviewed counts as level 1
unseenProgressLearning(cardId) ==
    [cardId |-> cardId, level |-> 1, lastReviewedAt |-> Absent, dueAt |-> Absent]

\* the record of a card that was never reviewed: level 0, due immediately
unseenProgress(cardId) ==
    [cardId |-> cardId, level |-> 0, lastReviewedAt |-> Absent, dueAt |-> Absent]

getCardProgress(progressMap, cardId) ==
    IF progressMap[cardId] = Absent THEN unseenProgress(cardId)
    ELSE progressMap[cardId][1]

\* mutant of isValidRating: 0 is taken for a rating
isValidRatingFromZero(rating) == rating \in 0..5

isValidRating(rating) == rating \in 1..5

\* mutant of nextLevel: a rating of 3 demotes
nextLevelPromoteAboveThree(level, rating) ==
    IF rating > 3 THEN Min(level + 1, 5) ELSE Max(level - 1, 0)

nextLevel(level, rating) ==
    IF rating >= 3 THEN Min(level + 1, 5) ELSE Max(level - 1, 0)

\* mutant of reviewedProgress: the interval of the level before the review
reviewedProgressOldInterval(p, rating, t) ==
    [p EXCEPT !.level = nextLevel(p.level, rating),
              !.lastReviewedAt = Present(t),
              !.dueAt = Present(t + interval(p.level))]

\* the CardProgress a successful review returns
reviewedProgress(p, rating, t) ==
    LET level == nextLevel(p.level, rating)
    IN  [p EXCEPT !.level = level,
                  !.lastReviewedAt = Present(t),
                  !.dueAt = Present(t + interval(level))]

recordReview(p, rating, t) ==
    IF isValidRating(rating)
    THEN [ok |-> TRUE, progress |-> reviewedProgress(p, rating, t)]
    ELSE [ok |-> FALSE, error |-> "InvalidRating"]

\* mutant of isDue: a card due exactly now is not due yet
isDueStrictlyBefore(progressMap, cardId, t) ==
    \/ progressMap[cardId] = Absent
    \/ progressMap[cardId][1].dueAt = Absent
    \/ progressMap[cardId][1].dueAt[1] < t

isDue(progressMap, cardId, t) ==
    \/ progressMap[cardId] = Absent
    \/ progressMap[cardId][1].dueAt = Absent
    \/ progressMap[cardId][1].dueAt[1] <= t

\* mutant of dueRank: a card without a record is ranked as a level-0 card
dueRankByLevel(progressMap, cardId) ==
    getCardProgress(progressMap, cardId).level + 1

\* presentation rank: no record first, then by level
dueRank(progressMap, cardId) ==
    IF progressMap[cardId] = Absent THEN 0
    ELSE progressMap[cardId][1].level + 1

\* the cards of rank k and above, by rank, each rank in the order of cards
RECURSIVE sortByRank(_, _, _)
sortByRank(cards, progressMap, k) ==
    IF k > Len(levelLabels) THEN <<>>
    ELSE LET HasRank(c) == dueRank(progressMap, c) = k
         IN  SelectSeq(cards, HasRank) \o sortByRank(cards, progressMap, k + 1)

getDueCards(catalog, progressMap, t) ==
    LET Due(c) == isDue(progressMap, c, t)
    IN  sortByRank(SelectSeq(catalog, Due), progressMap, 0)

\* the number of cards with level >= 1
getLearnedCount(progressMap) ==
    Cardinality({c \in Cards : getCardProgress(progressMap, c).level >= 1})

\* the number of cards with level >= 5
getMasteredCount(progressMap) ==
    Cardinality({c \in Cards : getCardProgress(progressMap, c).level >= 5})

\* SlangTerm.category of the catalog cards
category(cardId) == IF cardId = "C" THEN "food" ELSE "greetings"

\* mutant of countTerm: the two level thresholds are exchanged
countTermSwapped(stats, progressMap, term) ==
    LET cat == category(term)
        old == IF cat \in DOMAIN stats THEN stats[cat]
               ELSE [total |-> 0, learned |-> 0, mastered |-> 0]
        cardProgress == getCardProgress(progressMap, term)
    IN  [k \in DOMAIN stats \cup {cat} |->
            IF k = cat
            THEN [total |-> old.total + 1,
                  learned |-> IF cardProgress.level >= 5 THEN old.learned + 1 ELSE old.learned,
                  mastered |-> IF cardProgress.level >= 1 THEN old.mastered + 1 ELSE old.mastered]
            ELSE stats[k]]

\* categoryStats: the body of slangData.forEach for one term
countTerm(stats, progressMap, term) ==
    LET cat == category(term)
        old == IF cat \in DOMAIN stats THEN stats[cat]
               ELSE [total |-> 0, learned |-> 0, mastered |-> 0]
        cardProgress == getCardProgress(progressMap, term)
    IN  [k \in DOMAIN stats \cup {cat} |->
            IF k = cat
            THEN [total |-> old.total + 1,
                  learned |-> IF cardProgress.level >= 1 THEN old.learned + 1 ELSE old.learned,
                  mastered |-> IF cardProgress.level >= 5 THEN old.mastered + 1 ELSE old.mastered]
            ELSE stats[k]]

\* categoryStats: slangData.forEach from term i on
RECURSIVE countTermsFrom(_, _, _)
countTermsFrom(stats, progressMap, i) ==
    IF i > Len(Catalog) THEN stats
    ELSE countTermsFrom(countTerm(stats, progressMap, Catalog[i]), progressMap, i + 1)

categoryStats(progressMap) == countTermsFrom(<<>>, progressMap, 1)

\* no call of the progress engine was made yet
NoCall == [op |-> "none"]

\* the progress engine in the specifications that do not use it
ReviewIdle ==
    /\ progress = [c \in Cards |-> Absent]
    /\ now = 0
    /\ call = NoCall

(***************************************************************************)
(* VocabularyReview in review mode: the deck is the list of due cards,     *)
(* recomputed from the stored progress, and currentIndex is the cursor.    *)
(***************************************************************************)
\* dueCards = getDueCards(); currentCards in review mode
currentCards(progressMap, t) == getDueCards(Catalog, progressMap, t)

\* currentCards[currentIndex], a JavaScript array indexed from 0; Absent is
\* undefined
currentCard(progressMap, t, index) ==
    LET deck == currentCards(progressMap, t)
    IN  IF (index + 1) \in DOMAIN deck THEN Present(deck[index + 1]) ELSE Absent

\* the Flashcard is rendered unless the deck is empty
showsFlashcard(progressMap, t) == Len(currentCards(progressMap, t)) # 0

\* rendering the Flashcard reads currentCard.id: a TypeError when currentCard
\* is undefined, after which nothing of the component is left to click
renderThrows(progressMap, t, index) ==
    /\ showsFlashcard(progressMap, t)
    /\ currentCard(progressMap, t, index) = Absent

\* handleRate, handleSkip: move to the next card, or back to the first
nextIndex(index, length) == IF index < length - 1 THEN index + 1 ELSE 0

\* updateCardProgress(cardId, rating): the stored progress after the review
updateCardProgress(progressMap, cardId, rating, t) ==
    LET res == recordReview(getCardProgress(progressMap, cardId), rating, t)
    IN  IF res.ok THEN [progressMap EXCEPT ![cardId] = Present(res.progress)]
        ELSE progressMap

\* the component as first rendered
DeckIdle ==
    /\ currentIndex = 0
    /\ isFlipped = FALSE
    /\ sessionStats = [reviewed |-> 0, correct |-> 0]

(***************************************************************************)
(* Backend (express routes over the SQLite tables).  Every middleware and  *)
(* handler is synchronous, so a request is handled in one step.            *)
(***************************************************************************)
\* table users: the registered users
Users == {"u1", "u2"}

\* Plan Limits: daily minutes by plan
planLimits == [free |-> 2, basic |-> 5, standard |-> 10, premium |-> 15]

\* SubscriptionModel.getUserDailyLimit(userId), in minutes
getUserDailyLimit(subs, userId) ==
    IF userId \in DOMAIN subs THEN planLimits[subs[userId]] ELSE planLimits.free

SecondsPerDay == 24 * 60 * 60

\* getTodayDate(): the calendar day of the clock
getTodayDate(t) == t \div SecondsPerDay

\* the Authorization header of a request: missing, not a Bearer header, a
\* Bearer token verifyToken rejects, or a Bearer token verifyToken accepts
\* with the userId of its payload ("gone" is a user deleted since)
Tokens ==
    {[kind |-> k, userId |-> "nobody"] : k \in {"missing", "notBearer", "invalid"}}
        \cup {[kind |-> "jwt", userId |-> u] : u \in Users \cup {"gone"}}

\* mutant of authenticate: the user of the payload is not looked up
authenticateNoLookup(token) ==
    IF token.kind \in {"missing", "notBearer"}
    THEN [nextCalls |-> 0, status |-> 401, error |-> "No token provided", user |-> Absent]
    ELSE IF token.kind = "invalid"
    THEN [nextCalls |-> 0, status |-> 401, error |-> "Invalid token", user |-> Absent]
    ELSE [nextCalls |-> 1, user |-> Present(token.userId)]

\* authenticate: answers 401, or sets req.user and calls next()
authenticate(token) ==
    IF token.kind \in {"missing", "notBearer"}
    THEN [nextCalls |-> 0, status |-> 401, error |-> "No token provided", user |-> Absent]
    ELSE IF token.kind = "invalid"
    THEN [nextCalls |-> 0, status |-> 401, error |-> "Invalid token", user |-> Absent]
    ELSE IF token.userId \notin Users
    THEN [nextCalls |-> 0, status |-> 401, error |-> "User not found", user |-> Absent]
    ELSE [nextCalls |-> 1, user |-> Present(token.userId)]

\* UsageModel.findByUserAndDate: the rows of usage_records with that key
findByUserAndDate(usage, userId, date) ==
    {r \in usage : r.user_id = userId /\ r.date = date}

\* UsageModel.getOrCreateDailyRecord: usage_records after the call.
\* minutes_used is kept in sixtieths of a minute.
getOrCreateDailyRecord(usage, userId, date) ==
    IF findByUserAndDate(usage, userId, date) # {} THEN usage
    ELSE usage \cup {[user_id |-> userId, date |-> date,
                      minutes_used |-> 0, sessions_count |-> 0]}

\* UsageModel.getTodayUsage: the row the call returns
getTodayUsage(usage, userId, date) ==
    CHOOSE r \in getOrCreateDailyRecord(usage, userId, date) :
        r.user_id = userId /\ r.date = date

\* UsageModel.addMinutes, with the minutes in sixtieths
addMinutes(usage, userId, sixtieths, date) ==
    LET record == getTodayUsage(usage, userId, date)
    IN  {IF r = record THEN [r EXCEPT !.minutes_used = @ + sixtieths] ELSE r :
            r \in getOrCreateDailyRecord(usage, userId, date)}

\* UsageModel.incrementSessionCount
incrementSessionCount(usage, userId, date) ==
    LET record == getTodayUsage(usage, userId, date)
    IN  {IF r = record THEN [r EXCEPT !.sessions_count = @ + 1] ELSE r :
            r \in getOrCreateDailyRecord(usage, userId, date)}

\* remaining = Math.max(0, dailyLimit - todayUsage.minutes_used), in sixtieths
remainingMinutes(subs, usage, userId, date) ==
    Max(0, 60 * getUserDailyLimit(subs, userId)
              - getTodayUsage(usage, userId, date).minutes_used)

\* mutant of limitReached: a user exactly at the limit may still start
limitReachedAbove(subs, usage, userId, date) ==
    60 * getUserDailyLimit(subs, userId)
        < getTodayUsage(usage, userId, date).minutes_used

\* checkUsageLimits: remaining <= 0
limitReached(subs, usage, userId, date) ==
    remainingMinutes(subs, usage, userId, date) <= 0

\* getUsageStatus(userId).allowed
usageAllowed(subs, usage, userId, date) ==
    remainingMinutes(subs, usage, userId, date) > 0

\* startSessionSchema: mode is optional and one of three names
startSessionSchema(body) ==
    body.mode = Absent \/ body.mode[1] \in {"everyday", "slang", "workplace"}

\* endSessionSchema: feedback is an optional boolean, messages_count an
\* optional number; wellFormed is FALSE for a body of another shape
endSessionSchema(body) == body.wellFormed

\* SessionModel.findById: the rows with that id (ids are insertion numbers)
findSessionById(sessions, id) == {i \in DOMAIN sessions : sessions[i].id = id}

\* SessionModel.getActiveSession: the rows of the user with ended_at NULL
getActiveSession(sessions, userId) ==
    {i \in DOMAIN sessions :
        sessions[i].user_id = userId /\ sessions[i].ended_at = Absent}

\* SessionModel.create: the two tables after the call
createSession(sessions, usage, userId, mode, t) ==
    [sessions |-> Append(sessions,
                         [id |-> Len(sessions) + 1, user_id |-> userId,
                          started_at |-> t, ended_at |-> Absent,
                          duration_seconds |-> 0, mode |-> mode,
                          messages_count |-> 0, feedback |-> Absent]),
     usage |-> incrementSessionCount(usage, userId, getTodayDate(t))]

\* SessionModel.updateMessageCount
updateMessageCount(sessions, id, count) ==
    [i \in DOMAIN sessions |->
        IF sessions[i].id = id THEN [sessions[i] EXCEPT !.messages_count = count]
        ELSE sessions[i]]

\* SessionModel.end: the two tables after the call.  duration_seconds / 60
\* minutes are duration_seconds sixtieths of a minute.
endSession(sessions, usage, id, feedback, t) ==
    LET i == CHOOSE k \in findSessionById(sessions, id) : TRUE
        duration_seconds == t - sessions[i].started_at
    IN  [sessions |-> [sessions EXCEPT
                          ![i].ended_at = Present(t),
                          ![i].duration_seconds = duration_seconds,
                          ![i].feedback = IF feedback = Absent THEN Absent
                                          ELSE Present(IF feedback[1] THEN 1 ELSE 0)],
         usage |-> addMinutes(usage, sessions[i].user_id, duration_seconds,
                              getTodayDate(t))]

\* mutant of startHandler: the active session is not looked for
startHandlerNoActiveCheck(body, userId, sessions, usage, t) ==
    IF ~startSessionSchema(body)
    THEN [status |-> 400, error |-> "Validation failed",
          sessions |-> sessions, usage |-> usage]
    ELSE LET created == createSession(sessions, usage, userId, body.mode, t)
         IN  [status |-> 201, sessions |-> created.sessions, usage |-> created.usage]

\* router.post('/start'): the handler behind authenticate and checkUsageLimits
startHandler(body, userId, sessions, usage, t) ==
    IF ~startSessionSchema(body)
    THEN [status |-> 400, error |-> "Validation failed",
          sessions |-> sessions, usage |-> usage]
    ELSE IF getActiveSession(sessions, userId) # {}
    THEN [status |-> 409, error |-> "Active session already exists",
          sessions |-> sessions, usage |-> usage]
    ELSE LET created == createSession(sessions, usage, userId, body.mode, t)
         IN  [status |-> 201, sessions |-> created.sessions, usage |-> created.usage]

\* checkUsageLimits followed by the handler of POST /sessions/start
startLimited(body, userId, subs, sessions, usage, t) ==
    LET date == getTodayDate(t)
        looked == getOrCreateDailyRecord(usage, userId, date)
    IN  IF limitReached(subs, usage, userId, date)
        THEN [status |-> 403, error |-> "Daily usage limit reached",
              code |-> "USAGE_LIMIT_REACHED", remaining_minutes |-> 0,
              sessions |-> sessions, usage |-> looked]
        ELSE startHandler(body, userId, sessions, looked, t)

\* mutant of endHandler: a session that has ended is ended again
endHandlerAgain(id, body, userId, subs, sessions, usage, t) ==
    IF ~endSessionSchema(body)
    THEN [status |-> 400, error |-> "Validation failed",
          sessions |-> sessions, usage |-> usage]
    ELSE IF findSessionById(sessions, id) = {}
    THEN [status |-> 404, error |-> "Session not found",
          sessions |-> sessions, usage |-> usage]
    ELSE LET session == sessions[CHOOSE k \in findSessionById(sessions, id) : TRUE]
         IN  IF session.user_id # userId
             THEN [status |-> 403, error |-> "Not authorized",
                   sessions |-> sessions, usage |-> usage]
             ELSE LET counted == IF body.messages_count = Absent THEN sessions
                                 ELSE updateMessageCount(sessions, id, body.messages_count[1])
                      ended == endSession(counted, usage, id, body.feedback, t)
                  IN  [status |-> 200, sessions |-> ended.sessions,
                       usage |-> getOrCreateDailyRecord(ended.usage, userId, getTodayDate(t))]

\* mutant of endHandler: the owner of the session is not compared
endHandlerAnyUser(id, body, userId, subs, sessions, usage, t) ==
    IF ~endSessionSchema(body)
    THEN [status |-> 400, error |-> "Validation failed",
          sessions |-> sessions, usage |-> usage]
    ELSE IF findSessionById(sessions, id) = {}
    THEN [status |-> 404, error |-> "Session not found",
          sessions |-> sessions, usage |-> usage]
    ELSE LET session == sessions[CHOOSE k \in findSessionById(sessions, id) : TRUE]
         IN  IF session.ended_at # Absent
             THEN [status |-> 400, error |-> "Session already ended",
                   sessions |-> sessions, usage |-> usage]
             ELSE LET counted == IF body.messages_count = Absent THEN sessions
                                 ELSE updateMessageCount(sessions, id, body.messages_count[1])
                      ended == endSession(counted, usage, id, body.feedback, t)
                  IN  [status |-> 200, sessions |-> ended.sessions,
                       usage |-> getOrCreateDailyRecord(ended.usage, userId, getTodayDate(t))]

\* router.post('/:id/end'): the handler behind authenticate
endHandler(id, body, userId, subs, sessions, usage, t) ==
    IF ~endSessionSchema(body)
    THEN [status |-> 400, error |-> "Validation failed",
          sessions |-> sessions, usage |-> usage]
    ELSE IF findSessionById(sessions, id) = {}
    THEN [status |-> 404, error |-> "Session not found",
          sessions |-> sessions, usage |-> usage]
    ELSE LET session == sessions[CHOOSE k \in findSessionById(sessions, id) : TRUE]
         IN  IF session.user_id # userId
             THEN [status |-> 403, error |-> "Not authorized",
                   sessions |-> sessions, usage |-> usage]
             ELSE IF session.ended_at # Absent
             THEN [status |-> 400, error |-> "Session already ended",
                   sessions |-> sessions, usage |-> usage]
             ELSE LET counted == IF body.messages_count = Absent THEN sessions
                                 ELSE updateMessageCount(sessions, id, body.messages_count[1])
                      ended == endSession(counted, usage, id, body.feedback, t)
                  IN  [status |-> 200, sessions |-> ended.sessions,
                       usage |-> getOrCreateDailyRecord(ended.usage, userId, getTodayDate(t))]

\* router.get('/check'): the handler behind authenticate
checkHandler(userId, subs, sessions, usage, t) ==
    LET date == getTodayDate(t)
    IN  [status |-> 200,
         can_start_session |-> usageAllowed(subs, usage, userId, date),
         remaining_minutes |-> remainingMinutes(subs, usage, userId, date),
         sessions |-> sessions,
         usage |-> getOrCreateDailyRecord(usage, userId, date)]

\* the answer of authenticate when it does not call next()
unauthorized(auth, sessions, usage) ==
    [status |-> auth.status, error |-> auth.error, sessions |-> sessions, usage |-> usage]

\* no request was made yet
NoRequest == [route |-> "none"]

\* the backend in the specifications that do not use it
ApiIdle ==
    /\ subscriptions = <<>>
    /\ practice_sessions = <<>>
    /\ usage_records = {}
    /\ clock = 0
    /\ http = NoRequest

(***************************************************************************)
(* SessionFeedback: the three-step feedback wizard.  sessionFeedback holds *)
(* the values of its useState hooks; null is Absent.                       *)
(***************************************************************************)
\* ids of HELPFUL_OPTIONS and IMPROVEMENT_OPTIONS the user toggles
HelpfulIds == {"vocabulary", "pronunciation"}
ImprovementIds == {"speed"}
Difficulties == {"too-easy", "just-right", "too-hard"}
Stars == {1, 2, 3, 4, 5}

\* the useState initial values
initialFeedback ==
    [step |-> 1, rating |-> 0, wouldRecommend |-> Absent, helpfulAspects |-> <<>>,
     improvementAreas |-> <<>>, difficulty |-> Absent, comments |-> ""]

\* prev.includes(id) ? prev.filter(i => i !== id) : [...prev, id]
toggleOption(prev, id) ==
    IF \E k \in DOMAIN prev : prev[k] = id
    THEN SelectSeq(prev, LAMBDA i : i # id)
    ELSE Append(prev, id)

\* mutant of canProceed: step 1 needs no rating
canProceedAlways(st) == TRUE

canProceed(st) == IF st.step = 1 THEN st.rating > 0 ELSE TRUE

\* the object handleSubmit passes to onSubmit
feedbackData(st) ==
    [overallRating |-> st.rating,
     wouldRecommend |-> IF st.wouldRecommend = Absent THEN TRUE ELSE st.wouldRecommend[1],
     helpfulAspects |-> st.helpfulAspects,
     improvementAreas |-> st.improvementAreas,
     difficulty |-> st.difficulty,
     comments |-> st.comments]

\* which buttons of feedback-actions are rendered
showsBack(st) == st.step > 1
showsContinue(st) == st.step < 3
showsSubmit(st) == ~(st.step < 3)

NoCallback == [name |-> "none"]

\* the wizard in the specifications that do not use it
FeedbackIdle ==
    /\ sessionFeedback = initialFeedback
    /\ propCall = NoCallback

(***************************************************************************)
(* useAuthProvider: the auth state, the token kept in localStorage under   *)
(* TOKEN_KEY, and the calls of refreshUser, login and register that await  *)
(* their response.  null is Absent.                                        *)
(***************************************************************************)
\* tokens the backend has issued: one stored by an earlier visit, one
\* returned by /auth/login or /auth/register
StoredBefore == "t1"
IssuedNow == "t2"
Account == "u1"

\* how an awaited exchange ends: response.ok, !response.ok, or a rejection
\* of fetch or of response.json()
Outcomes == {"ok", "notOk", "rejected"}

signedOutState ==
    [user |-> Absent, token |-> Absent, isLoading |-> FALSE, isAuthenticated |-> FALSE]

\* useState initial value
initialAuthState ==
    [user |-> Absent, token |-> Absent, isLoading |-> TRUE, isAuthenticated |-> FALSE]

signedInState(user, token) ==
    [user |-> Present(user), token |-> Present(token), isLoading |-> FALSE,
     isAuthenticated |-> TRUE]

\* refreshUser after await fetchWithAuth('/auth/me'); token is the value
\* read from localStorage when refreshUser was called
refreshCompletes(outcome, token, st, stored) ==
    IF outcome = "ok"
    THEN [threw |-> FALSE, state |-> signedInState(Account, token), stored |-> stored]
    ELSE IF outcome = "notOk"
    THEN [threw |-> FALSE, state |-> signedOutState, stored |-> Absent]
    ELSE [threw |-> FALSE, state |-> signedOutState, stored |-> stored]

\* mutant of loginCompletes: the token is stored before response.ok is tested
loginCompletesStoresFirst(outcome, st, stored) ==
    IF outcome = "rejected"
    THEN [threw |-> TRUE, state |-> st, stored |-> stored]
    ELSE IF outcome = "notOk"
    THEN [threw |-> TRUE, state |-> st, stored |-> Present(IssuedNow)]
    ELSE [threw |-> FALSE, state |-> signedInState(Account, IssuedNow),
          stored |-> Present(IssuedNow)]

\* login and register after await fetchWithAuth(...)
loginCompletes(outcome, st, stored) ==
    IF outcome = "rejected"
    THEN [threw |-> TRUE, state |-> st, stored |-> stored]
    ELSE IF outcome = "notOk"
    THEN [threw |-> TRUE, state |-> st, stored |-> stored]
    ELSE [threw |-> FALSE, state |-> signedInState(Account, IssuedNow),
          stored |-> Present(IssuedNow)]

NoEvent == [op |-> "none"]

\* the hook in the specifications that do not use it
AuthIdle ==
    /\ authState = initialAuthState
    /\ storedToken = Absent
    /\ pending = {}
    /\ authCalls = 0
    /\ authEvent = NoEvent
    /\ signedOut = FALSE

(***************************************************************************)
(* useVoicePractice: the hook around one SpeechRecognition object.         *)
(* recognizer is the state of that object: idle, running, stopping (stop() *)
(* was called, a result from the audio captured so far may still come) or  *)
(* finished (the final result or an error was delivered, onend is due);    *)
(* begunBy is the target of the startListening call whose start() began    *)
(* the recognition.  restartTimers holds the pending setTimeout callbacks, *)
(* each with the target of the call that scheduled it.                     *)
(***************************************************************************)
\* words the caller practises, and what the recognizer hears
TargetWords == {<<"A">>, <<"b">>}
Heard == {<<"a">>, <<"b">>}

initialVoice == [isListening |-> FALSE, transcript |-> <<>>, result |-> Absent, error |-> Absent]

idleRecognizer == [state |-> "idle", begunBy |-> Absent]

\* recognition.start() throws InvalidStateError unless the object is idle
startThrows(rec) == rec.state # "idle"

\* recognition.onstart
onstart(st) == [isListening |-> TRUE, error |-> Absent, transcript |-> <<>>, result |-> Absent]

\* recognition.onresult for event.results[0] with the given transcripts
onresult(targetRef, transcripts, isFinal, st) ==
    LET spokenText == trim(toLowerCase(transcripts[1]))
        alts == [i \in DOMAIN transcripts |-> trim(toLowerCase(transcripts[i]))]
    IN  IF isFinal
        THEN [st EXCEPT !.transcript = spokenText,
                        !.result = Present(calculateMatch(targetRef, spokenText, alts))]
        ELSE [st EXCEPT !.transcript = spokenText]

\* recognition.onerror
onerror(st) == [st EXCEPT !.isListening = FALSE,
                          !.error = Present("Error occurred. Please try again.")]

\* recognition.onend
onend(st) == [st EXCEPT !.isListening = FALSE]

NoScore == [scored |-> FALSE]

\* the hook in the specifications that do not use it
VoiceIdle ==
    /\ voice = initialVoice
    /\ targetWordRef = <<>>
    /\ recognizer = idleRecognizer
    /\ restartTimers = <<>>
    /\ listenCalls = 0
    /\ lastScore = NoScore

(***************************************************************************)
(* POST /auth/register.  The handler is async: it runs up to the await of  *)
(* bcrypt.hash inside UserModel.create, other requests are served          *)
(* meanwhile, and it resumes with the INSERT.  accounts holds the tables   *)
(* users and subscriptions; emailIsUnique says whether the schema (not     *)
(* under src) declares users.email UNIQUE, in which case the INSERT of a   *)
(* stored email throws.                                                    *)
(***************************************************************************)
\* request bodies: well-formed ones by email, and one registerSchema rejects
RegisterBodies ==
    {[email |-> e, wellFormed |-> TRUE] : e \in {<<"a">>, <<"A">>, <<"b">>}}
        \cup {[email |-> <<"!">>, wellFormed |-> FALSE]}

noAccounts == [users |-> <<>>, subscriptions |-> <<>>]

\* UserModel.findByEmail(email): the rows with the lowercased email
findByEmail(users, email) ==
    {k \in DOMAIN users : users[k].email = toLowerCase(email)}

\* the handler up to await bcrypt.hash(...)
registerBegins(body, users) ==
    IF ~body.wellFormed
    THEN [pc |-> "done", status |-> 400]
    ELSE IF findByEmail(users, body.email) # {}
    THEN [pc |-> "done", status |-> 409]
    ELSE [pc |-> "hashing", status |-> 0]

\* the handler from stmt.run(...) on, for the request with the given id
registerResumes(id, body, acc, unique) ==
    IF unique /\ findByEmail(acc.users, body.email) # {}
    THEN [status |-> 500, accounts |-> acc]
    ELSE [status |-> 201,
          accounts |-> [users |-> Append(acc.users,
                                         [id |-> id, email |-> toLowerCase(body.email)]),
                        subscriptions |-> Append(acc.subscriptions,
                                         [user_id |-> id, plan |-> "free",
                                          status |-> "active"])]]

\* the backend accounts in the specifications that do not use them
RegisterIdle ==
    /\ accounts = noAccounts
    /\ emailIsUnique = FALSE
    /\ registrations = <<>>

(***************************************************************************)
(* AussieEnglishPractice: the view, the ref backendSessionId and the two   *)
(* async handlers startSession and endSession, each at one of its awaits.  *)
(* The hooks useSubscription and useElevenLabsConversation are seen only   *)
(* through their calls: a call resolves or rejects.  obtained holds the    *)
(* ids startBackendSession returned, recorded the ids passed to            *)
(* recordSessionUsage.                                                     *)
(***************************************************************************)
\* neither startSession nor endSession is under way
practiceAtRest == [start |-> "idle", end |-> "idle", authSeen |-> FALSE, feedback |-> Absent]

\* endSession between conversation.endSession() and its next await or its
\* end; authSeen is isAuthenticated as the closure of the caller captured it
endSessionRecords(authSeen, ref) == authSeen /\ ref # Absent

\* the screen in the specifications that do not use it
PracticeIdle ==
    /\ viewState = "selector"
    /\ backendSessionId = Absent
    /\ practice = practiceAtRest
    /\ connected = FALSE
    /\ signedIn = [now |-> FALSE, atFirstRender |-> FALSE]
    /\ obtained = {}
    /\ recorded = {}

(***************************************************************************)
(* SpecNorm: normalizeString applied repeatedly to a bounded raw string.   *)
(***************************************************************************)
NormChars == LowerLetters \cup UpperLetters \cup Digits \cup Whitespace \cup Punctuation

InitNorm ==
    /\ text \in StrUpTo(NormChars, MaxNormLen)
    /\ normCalls = 0
    /\ str1 = <<>> /\ str2 = <<>> /\ simResult = NoResult
    /\ target = <<>> /\ spoken = <<>> /\ alternatives = <<>>
    /\ result = NoResult
    /\ ReviewIdle
    /\ DeckIdle
    /\ ApiIdle
    /\ FeedbackIdle
    /\ AuthIdle
    /\ VoiceIdle
    /\ RegisterIdle
    /\ PracticeIdle

Normalize ==
    /\ normCalls < MaxNormCalls
    /\ text' = normalizeString(text)
    /\ normCalls' = normCalls + 1
    /\ UNCHANGED <<simVars, matchVars, reviewVars, deckVars, apiVars, feedbackVars, authVars, voiceVars, registerVars, practiceVars>>

NextNorm == Normalize

SpecNorm == InitNorm /\ [][NextNorm]_vars

(***************************************************************************)
(* SpecSim: calculateSimilarity applied to a bounded pair of strings.      *)
(***************************************************************************)
InitSim ==
    /\ str1 \in StrUpTo(LowerLetters, MaxSimLen)
    /\ str2 \in StrUpTo(LowerLetters, MaxSimLen)
    /\ simResult = NoResult
    /\ text = <<>> /\ normCalls = 0
    /\ target = <<>> /\ spoken = <<>> /\ alternatives = <<>>
    /\ result = NoResult
    /\ ReviewIdle
    /\ DeckIdle
    /\ ApiIdle
    /\ FeedbackIdle
    /\ AuthIdle
    /\ VoiceIdle
    /\ RegisterIdle
    /\ PracticeIdle

CalculateSimilarity ==
    /\ simResult' = Returned(calculateSimilarity(str1, str2))
    /\ UNCHANGED <<str1, str2, normVars, matchVars, reviewVars, deckVars, apiVars, feedbackVars, authVars, voiceVars, registerVars, practiceVars>>

NextSim == CalculateSimilarity

SpecSim == InitSim /\ [][NextSim]_vars

(***************************************************************************)
(* Spec: calculateMatch applied to a bounded (target, spoken,              *)
(* alternatives) triple.  A phrase is a word of lowercase letters, a run   *)
(* of one letter, or a short raw string with capitals, punctuation and     *)
(* whitespace.  The alternatives are empty or the list onresult builds:    *)
(* the primary transcript first, then further hypotheses, here the target  *)
(* followed by a punctuation mark.                                         *)
(***************************************************************************)
RawChars == LowerLetters \cup UpperLetters \cup {" "} \cup Punctuation

\* a long phrase and the same phrase with its last letter not recognised
LongRuns == {[i \in 1..n |-> "a"] : n \in (MaxLongRun - 1)..MaxLongRun}

Phrases ==
    StrUpTo(LowerLetters, MaxLen) \cup StrUpTo({"a"}, MaxRunLen)
        \cup StrUpTo(RawChars, MaxRawLen) \cup LongRuns

Hypotheses(t) == {t \o <<"!">>}

RecognizedAlternatives(t, s) ==
    {<<>>} \cup {<<s>> \o h : h \in SeqUpTo(Hypotheses(t), maxAlternatives - 1)}

Init ==
    /\ target \in Phrases
    /\ spoken \in Phrases
    /\ alternatives \in RecognizedAlternatives(target, spoken)
    /\ result = NoResult
    /\ text = <<>> /\ normCalls = 0
    /\ str1 = <<>> /\ str2 = <<>> /\ simResult = NoResult
    /\ ReviewIdle
    /\ DeckIdle
    /\ ApiIdle
    /\ FeedbackIdle
    /\ AuthIdle
    /\ VoiceIdle
    /\ RegisterIdle
    /\ PracticeIdle

CalculateMatch ==
    /\ result = NoResult
    /\ result' = Returned(calculateMatch(target, spoken, alternatives))
    /\ UNCHANGED <<target, spoken, alternatives, normVars, simVars, reviewVars, deckVars, apiVars, feedbackVars, authVars, voiceVars, registerVars, practiceVars>>

Next == CalculateMatch

Spec == Init /\ [][Next]_vars

(***************************************************************************)
(* SpecDeck: a review session of VocabularyReview over the stored          *)
(* progress, while the clock advances.                                     *)
(***************************************************************************)
InitDeck ==
    /\ progress \in {[c \in Cards |-> IF c \in S THEN Present(unseenProgress(c)) ELSE Absent] :
                        S \in SUBSET Cards}
    /\ now = 0
    /\ call = NoCall
    /\ DeckIdle
    /\ ApiIdle
    /\ text = <<>> /\ normCalls = 0
    /\ str1 = <<>> /\ str2 = <<>> /\ simResult = NoResult
    /\ target = <<>> /\ spoken = <<>> /\ alternatives = <<>>
    /\ result = NoResult
    /\ FeedbackIdle
    /\ AuthIdle
    /\ VoiceIdle
    /\ RegisterIdle
    /\ PracticeIdle

HandleFlip ==
    /\ showsFlashcard(progress, now)
    /\ ~renderThrows(progress, now, currentIndex)
    /\ isFlipped' = ~isFlipped
    /\ UNCHANGED <<currentIndex, sessionStats, reviewVars, normVars, simVars, matchVars, apiVars, feedbackVars, authVars, voiceVars, registerVars, practiceVars>>

HandleRate ==
    /\ showsFlashcard(progress, now)
    /\ ~renderThrows(progress, now, currentIndex)
    /\ isFlipped
    /\ sessionStats.reviewed < MaxReviewed
    /\ \E rating \in ratingButtons :
         /\ progress' = updateCardProgress(progress, currentCard(progress, now, currentIndex)[1],
                                           rating, now)
         /\ sessionStats' = [reviewed |-> sessionStats.reviewed + 1,
                             correct |-> IF rating >= 3 THEN sessionStats.correct + 1
                                         ELSE sessionStats.correct]
    /\ isFlipped' = FALSE
    /\ currentIndex' = nextIndex(currentIndex, Len(currentCards(progress, now)))
    /\ UNCHANGED <<now, call, normVars, simVars, matchVars, apiVars, feedbackVars, authVars, voiceVars, registerVars, practiceVars>>

HandleSkip ==
    /\ showsFlashcard(progress, now)
    /\ ~renderThrows(progress, now, currentIndex)
    /\ isFlipped' = FALSE
    /\ currentIndex' = nextIndex(currentIndex, Len(currentCards(progress, now)))
    /\ UNCHANGED <<sessionStats, reviewVars, normVars, simVars, matchVars, apiVars, feedbackVars, authVars, voiceVars, registerVars, practiceVars>>

\* the Review tab: setViewMode('review'); resetSession()
ResetSession ==
    /\ ~renderThrows(progress, now, currentIndex)
    /\ currentIndex' = 0
    /\ isFlipped' = FALSE
    /\ sessionStats' = [reviewed |-> 0, correct |-> 0]
    /\ UNCHANGED <<reviewVars, normVars, simVars, matchVars, apiVars, feedbackVars, authVars, voiceVars, registerVars, practiceVars>>

DayPasses ==
    /\ now < MaxNow
    /\ now' = now + 1
    /\ UNCHANGED <<progress, call, deckVars, normVars, simVars, matchVars, apiVars, feedbackVars, authVars, voiceVars, registerVars, practiceVars>>

NextDeck == HandleFlip \/ HandleRate \/ HandleSkip \/ ResetSession \/ DayPasses

SpecDeck == InitDeck /\ [][NextDeck]_vars

(***************************************************************************)
(* SpecApi: requests to the backend, one at a time, while the server clock *)
(* advances.  The clock starts shortly before midnight, u1 is on the free  *)
(* plan and u2 on the basic plan.                                          *)
(***************************************************************************)
StartTime == SecondsPerDay - TickSeconds

StartBodies == {[mode |-> Present("slang")], [mode |-> Present("bogus")]}

EndBodies ==
    {[wellFormed |-> TRUE, feedback |-> Present(TRUE), messages_count |-> Present(2)],
     [wellFormed |-> FALSE, feedback |-> Absent, messages_count |-> Absent]}

\* the routes behind authenticate whose handlers call getUsageStatus
UsageRoutes == {"GET /subscriptions/current", "GET /subscriptions/usage"}

\* the routes behind authenticate whose handlers change neither table
PlainRoutes ==
    {"GET /sessions/active", "GET /sessions/history", "GET /auth/me", "PATCH /auth/me"}

InitApi ==
    /\ subscriptions = [u \in Users |-> IF u = "u1" THEN "free" ELSE "basic"]
    /\ practice_sessions = <<>>
    /\ usage_records = {}
    /\ clock = StartTime
    /\ http = NoRequest
    /\ ReviewIdle
    /\ DeckIdle
    /\ text = <<>> /\ normCalls = 0
    /\ str1 = <<>> /\ str2 = <<>> /\ simResult = NoResult
    /\ target = <<>> /\ spoken = <<>> /\ alternatives = <<>>
    /\ result = NoResult
    /\ FeedbackIdle
    /\ AuthIdle
    /\ VoiceIdle
    /\ RegisterIdle
    /\ PracticeIdle

\* the tables before the request, kept with the exchange
tablesBefore == [sessions |-> practice_sessions, usage |-> usage_records]

\* POST /sessions/start
StartSession ==
    /\ http = NoRequest
    /\ \E token \in Tokens, body \in StartBodies :
         LET auth == authenticate(token)
             res == IF auth.nextCalls = 0
                    THEN unauthorized(auth, practice_sessions, usage_records)
                    ELSE startLimited(body, auth.user[1], subscriptions,
                                      practice_sessions, usage_records, clock)
         IN  /\ Len(res.sessions) <= MaxSessions
             /\ practice_sessions' = res.sessions
             /\ usage_records' = res.usage
             /\ http' = [route |-> "POST /sessions/start", token |-> token,
                         body |-> body, auth |-> auth, at |-> clock,
                         before |-> tablesBefore, response |-> res]
    /\ UNCHANGED <<subscriptions, clock, normVars, simVars, matchVars, reviewVars, deckVars, feedbackVars, authVars, voiceVars, registerVars, practiceVars>>

\* POST /sessions/:id/end
EndSession ==
    /\ http = NoRequest
    /\ \E token \in Tokens, id \in 1..MaxSessions, body \in EndBodies :
         LET auth == authenticate(token)
             res == IF auth.nextCalls = 0
                    THEN unauthorized(auth, practice_sessions, usage_records)
                    ELSE endHandler(id, body, auth.user[1], subscriptions,
                                    practice_sessions, usage_records, clock)
         IN  /\ practice_sessions' = res.sessions
             /\ usage_records' = res.usage
             /\ http' = [route |-> "POST /sessions/:id/end", token |-> token,
                         id |-> id, body |-> body, auth |-> auth, at |-> clock,
                         before |-> tablesBefore, response |-> res]
    /\ UNCHANGED <<subscriptions, clock, normVars, simVars, matchVars, reviewVars, deckVars, feedbackVars, authVars, voiceVars, registerVars, practiceVars>>

\* GET /subscriptions/check
CheckSubscription ==
    /\ http = NoRequest
    /\ \E token \in Tokens :
         LET auth == authenticate(token)
             res == IF auth.nextCalls = 0
                    THEN unauthorized(auth, practice_sessions, usage_records)
                    ELSE checkHandler(auth.user[1], subscriptions,
                                      practice_sessions, usage_records, clock)
         IN  /\ practice_sessions' = res.sessions
             /\ usage_records' = res.usage
             /\ http' = [route |-> "GET /subscriptions/check", token |-> token,
                         auth |-> auth, at |-> clock,
                         before |-> tablesBefore, response |-> res]
    /\ UNCHANGED <<subscriptions, clock, normVars, simVars, matchVars, reviewVars, deckVars, feedbackVars, authVars, voiceVars, registerVars, practiceVars>>

\* the other routes behind authenticate
OtherProtected ==
    /\ http = NoRequest
    /\ \E token \in Tokens, route \in UsageRoutes \cup PlainRoutes :
         LET auth == authenticate(token)
             res == IF auth.nextCalls = 0
                    THEN unauthorized(auth, practice_sessions, usage_records)
                    ELSE [status |-> 200, sessions |-> practice_sessions,
                          usage |-> IF route \in UsageRoutes
                                    THEN getOrCreateDailyRecord(usage_records, auth.user[1],
                                                                getTodayDate(clock))
                                    ELSE usage_records]
         IN  /\ practice_sessions' = res.sessions
             /\ usage_records' = res.usage
             /\ http' = [route |-> route, token |-> token, auth |-> auth, at |-> clock,
                         before |-> tablesBefore, response |-> res]
    /\ UNCHANGED <<subscriptions, clock, normVars, simVars, matchVars, reviewVars, deckVars, feedbackVars, authVars, voiceVars, registerVars, practiceVars>>

\* the response has gone out
Respond ==
    /\ http # NoRequest
    /\ http' = NoRequest
    /\ UNCHANGED <<subscriptions, practice_sessions, usage_records, clock,
                   normVars, simVars, matchVars, reviewVars, deckVars, feedbackVars, authVars, voiceVars, registerVars, practiceVars>>

TickClock ==
    /\ http = NoRequest
    /\ clock < StartTime + MaxTicks * TickSeconds
    /\ clock' = clock + TickSeconds
    /\ UNCHANGED <<subscriptions, practice_sessions, usage_records, http,
                   normVars, simVars, matchVars, reviewVars, deckVars, feedbackVars, authVars, voiceVars, registerVars, practiceVars>>

NextApi ==
    StartSession \/ EndSession \/ CheckSubscription \/ OtherProtected \/ Respond \/ TickClock

SpecApi == InitApi /\ [][NextApi]_vars

(***************************************************************************)
(* SpecReview: the progress engine called on a small catalog while the     *)
(* clock advances, one call at a time.  The caller stores what             *)
(* recordReview returns.  A card starts without a record or with the       *)
(* stored record of an unseen card.                                        *)
(***************************************************************************)
InitReview ==
    /\ progress \in {[c \in Cards |-> IF c \in S THEN Present(unseenProgress(c)) ELSE Absent] :
                        S \in SUBSET Cards}
    /\ now = 0
    /\ call = NoCall
    /\ DeckIdle
    /\ ApiIdle
    /\ text = <<>> /\ normCalls = 0
    /\ str1 = <<>> /\ str2 = <<>> /\ simResult = NoResult
    /\ target = <<>> /\ spoken = <<>> /\ alternatives = <<>>
    /\ result = NoResult
    /\ FeedbackIdle
    /\ AuthIdle
    /\ VoiceIdle
    /\ RegisterIdle
    /\ PracticeIdle

RecordReview ==
    /\ call = NoCall
    /\ \E c \in Cards, rating \in ratingButtons \cup {0, 6} :
         LET res == recordReview(getCardProgress(progress, c), rating, now)
         IN  /\ progress' = IF res.ok THEN [progress EXCEPT ![c] = Present(res.progress)]
                            ELSE progress
             /\ call' = [op |-> "recordReview", card |-> c, rating |-> rating,
                         at |-> now, before |-> progress[c], result |-> res]
             /\ UNCHANGED <<now, normVars, simVars, matchVars, deckVars, apiVars, feedbackVars, authVars, voiceVars, registerVars, practiceVars>>

GetDueCards ==
    /\ call = NoCall
    /\ call' = [op |-> "getDueCards", at |-> now,
                result |-> getDueCards(Catalog, progress, now)]
    /\ UNCHANGED <<progress, now, normVars, simVars, matchVars, deckVars, apiVars, feedbackVars, authVars, voiceVars, registerVars, practiceVars>>

GetCardProgress ==
    /\ call = NoCall
    /\ \E c \in Cards :
         call' = [op |-> "getCardProgress", card |-> c, at |-> now,
                  before |-> progress[c], result |-> getCardProgress(progress, c)]
    /\ UNCHANGED <<progress, now, normVars, simVars, matchVars, deckVars, apiVars, feedbackVars, authVars, voiceVars, registerVars, practiceVars>>

\* the caller has taken the result of the latest call
Return ==
    /\ call # NoCall
    /\ call' = NoCall
    /\ UNCHANGED <<progress, now, normVars, simVars, matchVars, deckVars, apiVars, feedbackVars, authVars, voiceVars, registerVars, practiceVars>>

Tick ==
    /\ call = NoCall
    /\ now < MaxNow
    /\ now' = now + 1
    /\ UNCHANGED <<progress, call, normVars, simVars, matchVars, deckVars, apiVars, feedbackVars, authVars, voiceVars, registerVars, practiceVars>>

NextReview == RecordReview \/ GetDueCards \/ GetCardProgress \/ Return \/ Tick

SpecReview == InitReview /\ [][NextReview]_vars

(***************************************************************************)
(* SpecFeedback: clicks on the rendered controls of SessionFeedback.  Each *)
(* click is handled and rendered before the next one; a call of onSubmit   *)
(* or onSkip returns before the next click.                                *)
(***************************************************************************)
InitFeedback ==
    /\ FeedbackIdle
    /\ text = <<>> /\ normCalls = 0
    /\ str1 = <<>> /\ str2 = <<>> /\ simResult = NoResult
    /\ target = <<>> /\ spoken = <<>> /\ alternatives = <<>>
    /\ result = NoResult
    /\ ReviewIdle
    /\ DeckIdle
    /\ ApiIdle
    /\ AuthIdle
    /\ VoiceIdle
    /\ RegisterIdle
    /\ PracticeIdle

ClickStar ==
    /\ propCall = NoCallback
    /\ sessionFeedback.step = 1
    /\ \E star \in Stars : sessionFeedback' = [sessionFeedback EXCEPT !.rating = star]
    /\ UNCHANGED <<propCall, normVars, simVars, matchVars, reviewVars, deckVars, apiVars, authVars, voiceVars, registerVars, practiceVars>>

ClickDifficulty ==
    /\ propCall = NoCallback
    /\ sessionFeedback.step = 1
    /\ \E d \in Difficulties :
         sessionFeedback' = [sessionFeedback EXCEPT !.difficulty = Present(d)]
    /\ UNCHANGED <<propCall, normVars, simVars, matchVars, reviewVars, deckVars, apiVars, authVars, voiceVars, registerVars, practiceVars>>

ToggleHelpful ==
    /\ propCall = NoCallback
    /\ sessionFeedback.step = 2
    /\ \E id \in HelpfulIds :
         sessionFeedback' = [sessionFeedback EXCEPT
                                !.helpfulAspects = toggleOption(@, id)]
    /\ UNCHANGED <<propCall, normVars, simVars, matchVars, reviewVars, deckVars, apiVars, authVars, voiceVars, registerVars, practiceVars>>

ToggleImprovement ==
    /\ propCall = NoCallback
    /\ sessionFeedback.step = 3
    /\ \E id \in ImprovementIds :
         sessionFeedback' = [sessionFeedback EXCEPT
                                !.improvementAreas = toggleOption(@, id)]
    /\ UNCHANGED <<propCall, normVars, simVars, matchVars, reviewVars, deckVars, apiVars, authVars, voiceVars, registerVars, practiceVars>>

ClickRecommend ==
    /\ propCall = NoCallback
    /\ sessionFeedback.step = 3
    /\ \E b \in BOOLEAN :
         sessionFeedback' = [sessionFeedback EXCEPT !.wouldRecommend = Present(b)]
    /\ UNCHANGED <<propCall, normVars, simVars, matchVars, reviewVars, deckVars, apiVars, authVars, voiceVars, registerVars, practiceVars>>

TypeComments ==
    /\ propCall = NoCallback
    /\ sessionFeedback.step = 3
    /\ \E value \in {"", "ta"} :
         sessionFeedback' = [sessionFeedback EXCEPT !.comments = value]
    /\ UNCHANGED <<propCall, normVars, simVars, matchVars, reviewVars, deckVars, apiVars, authVars, voiceVars, registerVars, practiceVars>>

ClickBack ==
    /\ propCall = NoCallback
    /\ showsBack(sessionFeedback)
    /\ sessionFeedback' = [sessionFeedback EXCEPT !.step = @ - 1]
    /\ UNCHANGED <<propCall, normVars, simVars, matchVars, reviewVars, deckVars, apiVars, authVars, voiceVars, registerVars, practiceVars>>

ClickContinue ==
    /\ propCall = NoCallback
    /\ showsContinue(sessionFeedback)
    /\ canProceed(sessionFeedback)
    /\ sessionFeedback' = [sessionFeedback EXCEPT !.step = @ + 1]
    /\ UNCHANGED <<propCall, normVars, simVars, matchVars, reviewVars, deckVars, apiVars, authVars, voiceVars, registerVars, practiceVars>>

ClickSkip ==
    /\ propCall = NoCallback
    /\ showsContinue(sessionFeedback)
    /\ propCall' = [name |-> "onSkip"]
    /\ UNCHANGED <<sessionFeedback, normVars, simVars, matchVars, reviewVars, deckVars, apiVars, authVars, voiceVars, registerVars, practiceVars>>

ClickSubmit ==
    /\ propCall = NoCallback
    /\ showsSubmit(sessionFeedback)
    /\ propCall' = [name |-> "onSubmit", feedback |-> feedbackData(sessionFeedback)]
    /\ UNCHANGED <<sessionFeedback, normVars, simVars, matchVars, reviewVars, deckVars, apiVars, authVars, voiceVars, registerVars, practiceVars>>

CallbackReturns ==
    /\ propCall # NoCallback
    /\ propCall' = NoCallback
    /\ UNCHANGED <<sessionFeedback, normVars, simVars, matchVars, reviewVars, deckVars, apiVars, authVars, voiceVars, registerVars, practiceVars>>

NextFeedback ==
    \/ ClickStar \/ ClickDifficulty \/ ToggleHelpful \/ ToggleImprovement
    \/ ClickRecommend \/ TypeComments \/ ClickBack \/ ClickContinue
    \/ ClickSkip \/ ClickSubmit \/ CallbackReturns

SpecFeedback == InitFeedback /\ [][NextFeedback]_vars

(***************************************************************************)
(* SpecAuth: calls of refreshUser, login, register and logout; a call that *)
(* awaits its response is in pending, and other calls run meanwhile.       *)
(***************************************************************************)
InitAuth ==
    /\ authState = initialAuthState
    /\ storedToken \in {Absent, Present(StoredBefore)}
    /\ pending = {}
    /\ authCalls = 0
    /\ authEvent = NoEvent
    /\ signedOut = FALSE
    /\ text = <<>> /\ normCalls = 0
    /\ str1 = <<>> /\ str2 = <<>> /\ simResult = NoResult
    /\ target = <<>> /\ spoken = <<>> /\ alternatives = <<>>
    /\ result = NoResult
    /\ ReviewIdle
    /\ DeckIdle
    /\ ApiIdle
    /\ FeedbackIdle
    /\ VoiceIdle
    /\ RegisterIdle
    /\ PracticeIdle

\* refreshUser up to its await
CallRefreshUser ==
    /\ authEvent = NoEvent
    /\ authCalls < MaxAuthCalls
    /\ authCalls' = authCalls + 1
    /\ IF storedToken = Absent
       THEN /\ authState' = signedOutState
            /\ UNCHANGED pending
       ELSE /\ pending' = pending \cup {[op |-> "refreshUser", token |-> storedToken[1],
                                         no |-> authCalls + 1]}
            /\ UNCHANGED authState
    /\ UNCHANGED <<storedToken, authEvent, signedOut, normVars, simVars, matchVars, reviewVars, deckVars, apiVars, feedbackVars, voiceVars, registerVars, practiceVars>>

\* login or register up to its await
CallLogin ==
    /\ authEvent = NoEvent
    /\ authCalls < MaxAuthCalls
    /\ authCalls' = authCalls + 1
    /\ \E op \in {"login", "register"} :
         pending' = pending \cup {[op |-> op, no |-> authCalls + 1]}
    /\ UNCHANGED <<authState, storedToken, authEvent, signedOut, normVars, simVars, matchVars, reviewVars, deckVars, apiVars, feedbackVars, voiceVars, registerVars, practiceVars>>

\* the rest of refreshUser, once its exchange has ended
RefreshUserResumes ==
    /\ authEvent = NoEvent
    /\ \E p \in pending, outcome \in Outcomes :
         /\ p.op = "refreshUser"
         /\ LET res == refreshCompletes(outcome, p.token, authState, storedToken)
            IN  /\ authState' = res.state
                /\ storedToken' = res.stored
                /\ authEvent' = [op |-> p.op, outcome |-> outcome, threw |-> res.threw,
                                 before |-> [state |-> authState, stored |-> storedToken]]
         /\ pending' = pending \ {p}
    /\ UNCHANGED <<authCalls, signedOut, normVars, simVars, matchVars, reviewVars, deckVars, apiVars, feedbackVars, voiceVars, registerVars, practiceVars>>

\* the rest of login or register, once its exchange has ended
LoginResumes ==
    /\ authEvent = NoEvent
    /\ \E p \in pending, outcome \in Outcomes :
         /\ p.op \in {"login", "register"}
         /\ LET res == loginCompletes(outcome, authState, storedToken)
            IN  /\ authState' = res.state
                /\ storedToken' = res.stored
                /\ authEvent' = [op |-> p.op, outcome |-> outcome, threw |-> res.threw,
                                 before |-> [state |-> authState, stored |-> storedToken]]
                /\ signedOut' = IF res.threw THEN signedOut ELSE FALSE
         /\ pending' = pending \ {p}
    /\ UNCHANGED <<authCalls, normVars, simVars, matchVars, reviewVars, deckVars, apiVars, feedbackVars, voiceVars, registerVars, practiceVars>>

Logout ==
    /\ authEvent = NoEvent
    /\ storedToken' = Absent
    /\ authState' = signedOutState
    /\ signedOut' = TRUE
    /\ UNCHANGED <<pending, authCalls, authEvent, normVars, simVars, matchVars, reviewVars, deckVars, apiVars, feedbackVars, voiceVars, registerVars, practiceVars>>

\* the promise of the call settles
Settle ==
    /\ authEvent # NoEvent
    /\ authEvent' = NoEvent
    /\ UNCHANGED <<authState, storedToken, pending, authCalls, signedOut, normVars, simVars, matchVars, reviewVars, deckVars, apiVars, feedbackVars, voiceVars, registerVars, practiceVars>>

NextAuth ==
    CallRefreshUser \/ CallLogin \/ RefreshUserResumes \/ LoginResumes \/ Logout \/ Settle

SpecAuth == InitAuth /\ [][NextAuth]_vars

(***************************************************************************)
(* SpecVoice: calls of startListening and stopListening, the events of the *)
(* recognizer and the restart timers, in any order.                        *)
(***************************************************************************)
InitVoice ==
    /\ VoiceIdle
    /\ text = <<>> /\ normCalls = 0
    /\ str1 = <<>> /\ str2 = <<>> /\ simResult = NoResult
    /\ target = <<>> /\ spoken = <<>> /\ alternatives = <<>>
    /\ result = NoResult
    /\ ReviewIdle
    /\ DeckIdle
    /\ ApiIdle
    /\ FeedbackIdle
    /\ AuthIdle
    /\ RegisterIdle
    /\ PracticeIdle

\* startListening(targetWord); onstart is taken with a successful start()
StartListening ==
    /\ listenCalls < MaxListenCalls
    /\ listenCalls' = listenCalls + 1
    /\ \E targetWord \in TargetWords :
         LET word == trim(toLowerCase(targetWord))
             cleared == [voice EXCEPT !.error = Absent, !.result = Absent,
                                      !.transcript = <<>>]
         IN  /\ targetWordRef' = word
             /\ IF startThrows(recognizer)
                THEN /\ recognizer' = [recognizer EXCEPT
                                          !.state = IF @ = "running" THEN "stopping" ELSE @]
                     /\ restartTimers' = Append(restartTimers, word)
                     /\ voice' = cleared
                ELSE /\ recognizer' = [state |-> "running", begunBy |-> Present(word)]
                     /\ restartTimers' = restartTimers
                     /\ voice' = onstart(cleared)
    /\ UNCHANGED <<lastScore, normVars, simVars, matchVars, reviewVars, deckVars, apiVars, feedbackVars, authVars, registerVars, practiceVars>>

\* the callback of setTimeout(..., 100); a start() that throws in it is lost
RestartTimerFires ==
    /\ restartTimers # <<>>
    /\ restartTimers' = Tail(restartTimers)
    /\ IF startThrows(recognizer)
       THEN UNCHANGED <<recognizer, voice, registerVars, practiceVars>>
       ELSE /\ recognizer' = [state |-> "running", begunBy |-> Present(Head(restartTimers))]
            /\ voice' = onstart(voice)
    /\ UNCHANGED <<targetWordRef, listenCalls, lastScore, normVars, simVars, matchVars, reviewVars, deckVars, apiVars, feedbackVars, authVars, registerVars, practiceVars>>

\* stopListening()
StopListening ==
    /\ voice.isListening
    /\ recognizer' = [recognizer EXCEPT !.state = IF @ = "running" THEN "stopping" ELSE @]
    /\ UNCHANGED <<voice, targetWordRef, restartTimers, listenCalls, lastScore, normVars, simVars, matchVars, reviewVars, deckVars, apiVars, feedbackVars, authVars, registerVars, practiceVars>>

\* onresult with an interim result
InterimResult ==
    /\ recognizer.state = "running"
    /\ \E heard \in Heard : voice' = onresult(targetWordRef, <<heard>>, FALSE, voice)
    /\ UNCHANGED <<targetWordRef, recognizer, restartTimers, listenCalls, lastScore, normVars, simVars, matchVars, reviewVars, deckVars, apiVars, feedbackVars, authVars, registerVars, practiceVars>>

\* onresult with the final result of the recognition
FinalResult ==
    /\ recognizer.state \in {"running", "stopping"}
    /\ \E heard \in Heard :
         /\ voice' = onresult(targetWordRef, <<heard>>, TRUE, voice)
         /\ lastScore' = [scored |-> TRUE, against |-> targetWordRef,
                          begunBy |-> recognizer.begunBy[1], heard |-> heard]
    /\ recognizer' = [recognizer EXCEPT !.state = "finished"]
    /\ UNCHANGED <<targetWordRef, restartTimers, listenCalls, normVars, simVars, matchVars, reviewVars, deckVars, apiVars, feedbackVars, authVars, registerVars, practiceVars>>

\* onerror, for instance no-speech
RecognitionError ==
    /\ recognizer.state \in {"running", "stopping"}
    /\ voice' = onerror(voice)
    /\ recognizer' = [recognizer EXCEPT !.state = "finished"]
    /\ UNCHANGED <<targetWordRef, restartTimers, listenCalls, lastScore, normVars, simVars, matchVars, reviewVars, deckVars, apiVars, feedbackVars, authVars, registerVars, practiceVars>>

\* onend
RecognitionEnds ==
    /\ recognizer.state \in {"stopping", "finished"}
    /\ voice' = onend(voice)
    /\ recognizer' = [recognizer EXCEPT !.state = "idle"]
    /\ UNCHANGED <<targetWordRef, restartTimers, listenCalls, lastScore, normVars, simVars, matchVars, reviewVars, deckVars, apiVars, feedbackVars, authVars, registerVars, practiceVars>>

NextVoice ==
    \/ StartListening \/ RestartTimerFires \/ StopListening \/ InterimResult
    \/ FinalResult \/ RecognitionError \/ RecognitionEnds

SpecVoice == InitVoice /\ [][NextVoice]_vars

(***************************************************************************)
(* SpecRegister: concurrent POST /auth/register requests.                  *)
(***************************************************************************)
InitRegister ==
    /\ accounts = noAccounts
    /\ emailIsUnique \in BOOLEAN
    /\ registrations = <<>>
    /\ text = <<>> /\ normCalls = 0
    /\ str1 = <<>> /\ str2 = <<>> /\ simResult = NoResult
    /\ target = <<>> /\ spoken = <<>> /\ alternatives = <<>>
    /\ result = NoResult
    /\ ReviewIdle
    /\ DeckIdle
    /\ ApiIdle
    /\ FeedbackIdle
    /\ AuthIdle
    /\ VoiceIdle
    /\ PracticeIdle

\* a request arrives and its handler runs up to the await
RegisterArrives ==
    /\ Len(registrations) < MaxRegistrations
    /\ \E body \in RegisterBodies :
         LET res == registerBegins(body, accounts.users)
         IN  registrations' = Append(registrations,
                 [body |-> body, pc |-> res.pc, status |-> res.status,
                  taken |-> findByEmail(accounts.users, body.email) # {}])
    /\ UNCHANGED <<accounts, emailIsUnique, normVars, simVars, matchVars, reviewVars, deckVars, apiVars, feedbackVars, authVars, voiceVars, practiceVars>>

\* bcrypt.hash has resolved and the handler runs to its response
RegisterResumes ==
    /\ \E id \in DOMAIN registrations :
         /\ registrations[id].pc = "hashing"
         /\ LET res == registerResumes(id, registrations[id].body, accounts, emailIsUnique)
            IN  /\ accounts' = res.accounts
                /\ registrations' = [registrations EXCEPT
                       ![id].pc = "done",
                       ![id].status = res.status,
                       ![id].taken = findByEmail(accounts.users,
                                                 registrations[id].body.email) # {}]
    /\ UNCHANGED <<emailIsUnique, normVars, simVars, matchVars, reviewVars, deckVars, apiVars, feedbackVars, authVars, voiceVars, practiceVars>>

NextRegister == RegisterArrives \/ RegisterResumes

SpecRegister == InitRegister /\ [][NextRegister]_vars

(***************************************************************************)
(* SpecPractice: a user of AussieEnglishPractice selecting, starting and   *)
(* ending sessions, while the conversation may disconnect and the awaited  *)
(* calls may fail.  signedIn.now is isAuthenticated, signedIn.atFirstRender *)
(* its value in the first render, which handleTimeUp keeps (useCallback    *)
(* with no dependencies).                                                  *)
(***************************************************************************)
InitPractice ==
    /\ viewState = "selector"
    /\ backendSessionId = Absent
    /\ practice = practiceAtRest
    /\ connected = FALSE
    /\ signedIn \in {[now |-> FALSE, atFirstRender |-> FALSE],
                     [now |-> TRUE, atFirstRender |-> FALSE],
                     [now |-> TRUE, atFirstRender |-> TRUE]}
    /\ obtained = {}
    /\ recorded = {}
    /\ text = <<>> /\ normCalls = 0
    /\ str1 = <<>> /\ str2 = <<>> /\ simResult = NoResult
    /\ target = <<>> /\ spoken = <<>> /\ alternatives = <<>>
    /\ result = NoResult
    /\ ReviewIdle
    /\ DeckIdle
    /\ ApiIdle
    /\ FeedbackIdle
    /\ AuthIdle
    /\ VoiceIdle
    /\ RegisterIdle

\* handleSelectScenario
SelectScenario ==
    /\ viewState = "selector"
    /\ viewState' = "intro"
    /\ UNCHANGED <<backendSessionId, practice, connected, signedIn, obtained, recorded, normVars, simVars, matchVars, reviewVars, deckVars, apiVars, feedbackVars, authVars, voiceVars, registerVars>>

\* handleBackToSelector
BackToSelector ==
    /\ viewState = "intro"
    /\ practice.start = "idle"
    /\ viewState' = "selector"
    /\ UNCHANGED <<backendSessionId, practice, connected, signedIn, obtained, recorded, normVars, simVars, matchVars, reviewVars, deckVars, apiVars, feedbackVars, authVars, voiceVars, registerVars>>

\* startSession up to its await in the try block; a refused usage check or
\* microphone permission returns before it
StartPracticeSession ==
    /\ viewState = "intro"
    /\ practice.start = "idle"
    /\ \E allowed \in BOOLEAN :
         practice' = [practice EXCEPT !.start =
             IF ~allowed THEN "idle"
             ELSE IF signedIn.now THEN "startBackendSession"
             ELSE "conversation.startSession"]
    /\ UNCHANGED <<viewState, backendSessionId, connected, signedIn, obtained, recorded, normVars, simVars, matchVars, reviewVars, deckVars, apiVars, feedbackVars, authVars, voiceVars, registerVars>>

\* await startBackendSession(...) resolves with a new id, or rejects
BackendSessionStarted ==
    /\ practice.start = "startBackendSession"
    /\ \/ /\ Cardinality(obtained) < MaxBackendSessions
          /\ LET sessionId == Cardinality(obtained) + 1
             IN  /\ obtained' = obtained \cup {sessionId}
                 /\ backendSessionId' = Present(sessionId)
          /\ practice' = [practice EXCEPT !.start = "conversation.startSession"]
       \/ /\ practice' = [practice EXCEPT !.start = "idle"]
          /\ UNCHANGED <<obtained, backendSessionId>>
    /\ UNCHANGED <<viewState, connected, signedIn, recorded, normVars, simVars, matchVars, reviewVars, deckVars, apiVars, feedbackVars, authVars, voiceVars, registerVars>>

\* await conversation.startSession(...) resolves, or rejects into the catch
ConversationStarted ==
    /\ practice.start = "conversation.startSession"
    /\ practice' = [practice EXCEPT !.start = "idle"]
    /\ \/ /\ connected' = TRUE
          /\ viewState' = "session"
       \/ UNCHANGED <<connected, viewState>>
    /\ UNCHANGED <<backendSessionId, signedIn, obtained, recorded, normVars, simVars, matchVars, reviewVars, deckVars, apiVars, feedbackVars, authVars, voiceVars, registerVars>>

\* End Session button and the two feedback buttons: endSession(feedback) up
\* to await conversation.endSession()
EndPracticeSession ==
    /\ viewState = "session"
    /\ practice.end = "idle"
    /\ \E feedback \in {Absent, Present(TRUE), Present(FALSE)} :
         practice' = [practice EXCEPT !.end = "conversation.endSession",
                                      !.authSeen = signedIn.now,
                                      !.feedback = feedback]
    /\ UNCHANGED <<viewState, backendSessionId, connected, signedIn, obtained, recorded, normVars, simVars, matchVars, reviewVars, deckVars, apiVars, feedbackVars, authVars, voiceVars, registerVars>>

\* handleTimeUp: endSession() of the first render
HandleTimeUp ==
    /\ viewState = "session"
    /\ practice.end = "idle"
    /\ practice' = [practice EXCEPT !.end = "conversation.endSession",
                                    !.authSeen = signedIn.atFirstRender,
                                    !.feedback = Absent]
    /\ UNCHANGED <<viewState, backendSessionId, connected, signedIn, obtained, recorded, normVars, simVars, matchVars, reviewVars, deckVars, apiVars, feedbackVars, authVars, voiceVars, registerVars>>

\* await conversation.endSession() resolves and endSession runs on to
\* recordSessionUsage or to its end, or it rejects into the catch
ConversationEnded ==
    /\ practice.end = "conversation.endSession"
    /\ \/ /\ connected' = FALSE
          /\ IF endSessionRecords(practice.authSeen, backendSessionId)
             THEN /\ recorded' = recorded \cup {backendSessionId[1]}
                  /\ practice' = [practice EXCEPT !.end = "recordSessionUsage"]
                  /\ UNCHANGED viewState
             ELSE /\ practice' = [practice EXCEPT !.end = "idle"]
                  /\ viewState' = "selector"
                  /\ UNCHANGED recorded
       \/ /\ practice' = [practice EXCEPT !.end = "idle"]
          /\ UNCHANGED <<connected, recorded, viewState>>
    /\ UNCHANGED <<backendSessionId, signedIn, obtained, normVars, simVars, matchVars, reviewVars, deckVars, apiVars, feedbackVars, authVars, voiceVars, registerVars>>

\* await recordSessionUsage(...) resolves, or rejects into the catch
UsageRecorded ==
    /\ practice.end = "recordSessionUsage"
    /\ practice' = [practice EXCEPT !.end = "idle"]
    /\ \/ /\ backendSessionId' = Absent
          /\ viewState' = "selector"
       \/ UNCHANGED <<backendSessionId, viewState>>
    /\ UNCHANGED <<connected, signedIn, obtained, recorded, normVars, simVars, matchVars, reviewVars, deckVars, apiVars, feedbackVars, authVars, voiceVars, registerVars>>

\* onDisconnect of the conversation
OnDisconnect ==
    /\ connected
    /\ connected' = FALSE
    /\ viewState' = "selector"
    /\ UNCHANGED <<backendSessionId, practice, signedIn, obtained, recorded, normVars, simVars, matchVars, reviewVars, deckVars, apiVars, feedbackVars, authVars, voiceVars, registerVars>>

NextPractice ==
    \/ SelectScenario \/ BackToSelector \/ StartPracticeSession \/ BackendSessionStarted
    \/ ConversationStarted \/ EndPracticeSession \/ HandleTimeUp \/ ConversationEnded
    \/ UsageRecorded \/ OnDisconnect

SpecPractice == InitPractice /\ [][NextPractice]_vars

\* C7: normalize is idempotent: once normalizeString has been applied to a
\* string, applying it again leaves the string as it is
\* (normalize(normalize(x)) = normalize(x) for every raw input x).
NormalizeIdempotent == normCalls >= 1 => normalizeString(text) = text

(***************************************************************************)
(* Edit distance by its definition: the least number of single-character   *)
(* insertions, deletions and substitutions that turn a into b.  A shortest *)
(* edit script never needs a string longer than the longer of a and b.     *)
(***************************************************************************)
OneEdit(s, maxLen) ==
    {SubSeq(s, 1, i - 1) \o SubSeq(s, i + 1, Len(s)) : i \in 1..Len(s)}
    \cup {[s EXCEPT ![i] = c] : i \in 1..Len(s), c \in LowerLetters}
    \cup (IF Len(s) < maxLen
          THEN {SubSeq(s, 1, i) \o <<c>> \o SubSeq(s, i + 1, Len(s)) :
                    i \in 0..Len(s), c \in LowerLetters}
          ELSE {})

RECURSIVE WithinEdits(_, _, _)
WithinEdits(a, k, maxLen) ==
    IF k = 0 THEN {a}
    ELSE LET prev == WithinEdits(a, k - 1, maxLen)
         IN  prev \cup UNION {OneEdit(s, maxLen) : s \in prev}

EditDistance(a, b) ==
    LET maxLen == Max(Len(a), Len(b))
    IN  CHOOSE k \in 0..maxLen :
            /\ b \in WithinEdits(a, k, maxLen)
            /\ \A m \in 0..(k - 1) : b \notin WithinEdits(a, m, maxLen)

\* r is num / den rounded to the nearest integer, a tie going up
IsRounded(r, num, den) ==
    /\ 2 * den * r - den <= 2 * num
    /\ 2 * num < 2 * den * r + den

\* the value returned by the call of SpecSim
simValue == simResult[1]

\* C8: for non-empty a and b, similarity(a, b) = round((1 - d / L) * 100)
\* with d the Levenshtein distance and L the longer length, and every cell
\* [i][j] of the matrix holds the edit distance of the prefixes of length i, j.
SimilarityIsRoundedEditDistance ==
    (simResult # NoResult /\ str1 # <<>> /\ str2 # <<>>) =>
        LET d == EditDistance(str1, str2)
            L == Max(Len(str1), Len(str2))
            matrix == editMatrix(str1, str2)
        IN  /\ IsRounded(simValue, (L - d) * 100, L)
            /\ \A i \in 0..Len(str1), j \in 0..Len(str2) :
                   matrix[i][j] = EditDistance(SubSeq(str1, 1, i), SubSeq(str2, 1, j))

SimilarityOfUnequalComputed ==
    /\ simResult # NoResult /\ simValue \notin {0, 100}
    /\ Len(str1) # Len(str2)
    /\ Len(str1) > 1

\* C9: similarity(s, s) = 100 for every string s, the empty string included.
SimilarityOfEqualIs100 ==
    (simResult # NoResult /\ str1 = str2) => simValue = 100

SimilarityOfEqualComputed ==
    /\ simResult = Returned(100)
    /\ str1 = str2
    /\ Len(str1) >= 2

\* C10: similarity(s, "") = similarity("", s) = 0 for every non-empty s, and
\* similarity("", "") = 100.
SimilarityWithEmpty ==
    simResult # NoResult =>
        /\ (str1 # <<>> /\ str2 = <<>>) => simValue = 0
        /\ (str1 = <<>> /\ str2 # <<>>) => simValue = 0
        /\ (str1 = <<>> /\ str2 = <<>>) => simValue = 100

SimilarityWithEmptyComputed ==
    /\ simResult = Returned(0)
    /\ str1 # <<>>
    /\ str2 = <<>>

(***************************************************************************)
(* Claims about calculateMatch, stated over the triple and the result of   *)
(* the call.                                                               *)
(***************************************************************************)
matched == result[1]

IsSubstring(sub, str) ==
    \E i \in 1..(Len(str) + 1), j \in 0..Len(str) : SubSeq(str, i, j) = sub

SomeAlternativeIs(nt) ==
    \E i \in DOMAIN alternatives : normalizeString(alternatives[i]) = nt

\* the rule of section 4.3 that decides the triple
RuleOf(nt, ns) ==
    IF nt = ns THEN 1
    ELSE IF SomeAlternativeIs(nt) THEN 2
    ELSE IF IsSubstring(nt, ns) THEN 4
    ELSE IF IsSubstring(ns, nt) /\ Len(ns) > 2 THEN 5
    ELSE 6

Rule == RuleOf(normalizeString(target), normalizeString(spoken))

primarySimilarity ==
    calculateSimilarity(normalizeString(target), normalizeString(spoken))

ThresholdTier(x) ==
    IF x \in 80..100 THEN "good"
    ELSE IF x \in 60..79 THEN "close"
    ELSE IF x \in 40..59 THEN "tryagain"
    ELSE IF x \in 0..39 THEN "different"
    ELSE "no tier"

ExactMatchIsPerfect ==
    (result # NoResult /\ normalizeString(spoken) = normalizeString(target)) =>
        matched.score = 100 /\ matched.feedback = "perfect"

ExactMatchWithMatchingAlternative ==
    /\ result # NoResult
    /\ target # spoken
    /\ Rule = 1
    /\ SomeAlternativeIs(normalizeString(target))
    /\ matched.feedback = "perfect"

\* C3: when normalize(spoken) differs from normalize(target) and some
\* alternative normalizes to normalize(target), the result is score 95, tier
\* excellent, whatever the similarity or substring relation of the primary.
AlternativeMatchIsExcellent ==
    (result # NoResult /\ Rule = 2) =>
        matched.score = 95 /\ matched.feedback = "excellent"

AlternativeMatchOverContainment ==
    /\ result # NoResult
    /\ Rule = 2
    /\ Len(normalizeString(spoken)) > 2
    /\ IsSubstring(normalizeString(spoken), normalizeString(target))
    /\ matched.feedback = "excellent"

\* C4: when rules 1 and 2 do not apply and normalize(spoken) contains
\* normalize(target), the result is tier good with score max(similarity, 85).
ContainedTargetIsGood ==
    (result # NoResult /\ Rule = 4) =>
        LET sim == primarySimilarity
        IN  /\ matched.feedback = "good"
            /\ matched.score = Max(sim, 85)

ContainedTargetAboveFloor ==
    /\ result # NoResult
    /\ Rule = 4
    /\ matched.feedback = "good"
    /\ matched.score > 85

\* C5: when rules 1, 2 and 4 do not apply, the tier is partial, with score
\* max(similarity, 70), exactly when normalize(target) contains
\* normalize(spoken) and the normalized spoken text has more than 2
\* characters; a contained spoken text of 0, 1 or 2 characters is tiered by
\* the similarity thresholds.
PartialOnlyAboveTwoCharacters ==
    LET rule == Rule
        sim == primarySimilarity
    IN  (result # NoResult /\ rule \in {5, 6}) =>
            /\ matched.feedback = "partial" <=> rule = 5
            /\ rule = 5 => matched.score = Max(sim, 70)
            /\ (rule = 6 /\ IsSubstring(normalizeString(spoken), normalizeString(target))) =>
                   /\ matched.score = sim
                   /\ matched.feedback = ThresholdTier(sim)

PartialAboveFloor ==
    /\ result # NoResult
    /\ Rule = 5
    /\ matched.feedback = "partial"
    /\ matched.score > 70

\* C6: when none of rules 1, 2, 4, 5 applies the score is the similarity and
\* the tier is good for 80..100, close for 60..79, tryagain for 40..59 and
\* different for 0..39.
ThresholdTiers ==
    (result # NoResult /\ Rule = 6) =>
        LET sim == primarySimilarity
        IN  /\ matched.score = sim
            /\ matched.feedback = ThresholdTier(sim)

ThresholdBoundaryIsGood ==
    /\ result # NoResult
    /\ Rule = 6
    /\ alternatives # <<>>
    /\ matched.score = 80
    /\ matched.feedback = "good"

\* C11: similarity is symmetric: similarity(a, b) = similarity(b, a) for all
\* strings a and b.
SimilaritySymmetric ==
    simResult # NoResult => simValue = calculateSimilarity(str2, str1)

SimilarityOfSwappedComputed ==
    /\ simResult # NoResult
    /\ Len(str1) < Len(str2)
    /\ str1 # <<>>
    /\ simValue \notin {0, 100}

\* C12: similarity(a, b) is an integer in 0..100 for all strings a and b, and
\* so is every score calculateMatch returns.
ScoreInRange ==
    result # NoResult =>
        /\ primarySimilarity \in 0..100
        /\ matched.score \in 0..100

ScoreStrictlyInside ==
    /\ result # NoResult
    /\ Rule = 6
    /\ matched.score \in 1..39
    /\ matched.score = primarySimilarity

\* C13 (as claimed): the result carries, besides score and tier, a field
\* normalizedTarget whose value is normalize(target).
ResultCarriesNormalizedTarget ==
    result # NoResult =>
        /\ "normalizedTarget" \in DOMAIN matched
        /\ matched.normalizedTarget = normalizeString(target)

\* C13 (amended): the result carries exactly score, feedback and transcript,
\* and transcript is the spoken text as it was passed in, not normalized; it
\* has no field normalizedTarget.
ResultCarriesTranscript ==
    result # NoResult =>
        /\ DOMAIN matched = {"score", "feedback", "transcript"}
        /\ matched.transcript = spoken

ResultOfRawSpoken ==
    /\ result # NoResult
    /\ normalizeString(spoken) # spoken
    /\ normalizeString(target) # target
    /\ matched.transcript = spoken

(***************************************************************************)
(* Claims about the progress engine, stated over the stored progress and   *)
(* the latest call.                                                        *)
(***************************************************************************)
Reviewed == call.op = "recordReview" /\ call.result.ok
Queried == call.op = "getDueCards"

\* the level the reviewed card had when recordReview was called
levelBefore == IF call.before = Absent THEN 0 ELSE call.before[1].level

ClaimedInterval(level) ==
    CASE level = 0 -> 0
      [] level = 1 -> 1
      [] level = 2 -> 3
      [] level = 3 -> 7
      [] level = 4 -> 14
      [] level = 5 -> 30

\* C14: after any sequence of recordReview calls the level of every card is
\* an integer in 0..5, so that levelLabels[level] is one of the six labels.
LevelInBounds ==
    \A c \in Cards :
        LET level == getCardProgress(progress, c).level
        IN  /\ level \in 0..5
            /\ (level + 1) \in DOMAIN levelLabels

LevelSaturatedAtTop ==
    /\ Reviewed
    /\ call.rating \in ratingButtons
    /\ levelBefore = 5
    /\ getCardProgress(progress, call.card).level = 5
    /\ levelLabels[getCardProgress(progress, call.card).level + 1] = "Mastered"

\* C15: a review with rating 3, 4 or 5 sets the level to min(level + 1, 5), a
\* review with rating 1 or 2 sets it to max(level - 1, 0).
LevelStepsByOne ==
    Reviewed =>
        LET after == call.result.progress.level
        IN  /\ call.rating \in 3..5 => after = Min(levelBefore + 1, 5)
            /\ call.rating \in 1..2 => after = Max(levelBefore - 1, 0)
            /\ progress[call.card] = Present(call.result.progress)

LevelDemoted ==
    /\ Reviewed
    /\ call.rating = 2
    /\ levelBefore = 3
    /\ getCardProgress(progress, call.card).level = 2

\* C16: recordReview with a rating outside 1..5 fails with InvalidRating,
\* returns no progress and leaves the stored record of the card as it was.
InvalidRatingRejected ==
    call.op = "recordReview" =>
        /\ call.result.ok <=> call.rating \in 1..5
        /\ ~call.result.ok =>
               /\ call.result.error = "InvalidRating"
               /\ "progress" \notin DOMAIN call.result
               /\ progress[call.card] = call.before

InvalidRatingOnReviewedCard ==
    /\ call.op = "recordReview"
    /\ call.rating = 0
    /\ ~call.result.ok
    /\ call.before # Absent
    /\ call.before[1].level = 2
    /\ call.before[1].dueAt = Present(3)

\* C17: a successful recordReview at time now sets lastReviewedAt to now and
\* dueAt to now + interval(level') with the table 0, 1, 3, 7, 14, 30 days,
\* and every stored dueAt is at or after the stored lastReviewedAt.
DueAtAfterReview ==
    /\ Reviewed =>
           LET p == call.result.progress
           IN  /\ p.lastReviewedAt = Present(call.at)
               /\ p.dueAt = Present(call.at + ClaimedInterval(p.level))
    /\ \A c \in Cards :
           LET p == getCardProgress(progress, c)
           IN  p.dueAt # Absent =>
                   /\ p.lastReviewedAt # Absent
                   /\ p.dueAt[1] >= p.lastReviewedAt[1]

ReviewedLaterAgain ==
    /\ Reviewed
    /\ call.at > 0
    /\ call.before # Absent
    /\ call.before[1].lastReviewedAt = Present(0)
    /\ call.result.progress.level = 3
    /\ call.result.progress.dueAt = Present(call.at + 7)

\* C18: getDueCards returns exactly the catalog cards without a record,
\* without a dueAt, or with dueAt <= now, each once.
DueCardsExact ==
    Queried =>
        /\ {call.result[i] : i \in DOMAIN call.result} =
               {c \in Cards :
                   \/ progress[c] = Absent
                   \/ progress[c][1].dueAt = Absent
                   \/ progress[c][1].dueAt[1] <= call.at}
        /\ \A i, j \in DOMAIN call.result : call.result[i] = call.result[j] => i = j

DueNowIncludedLaterExcluded ==
    /\ Queried
    /\ \E c, d \in Cards :
           /\ progress[c] # Absent /\ progress[c][1].dueAt = Present(call.at)
           /\ progress[c][1].lastReviewedAt # Present(call.at)
           /\ progress[d] # Absent /\ progress[d][1].dueAt # Absent
           /\ progress[d][1].dueAt[1] > call.at
           /\ \E i \in DOMAIN call.result : call.result[i] = c
           /\ \A i \in DOMAIN call.result : call.result[i] # d

\* position of a card in the catalog
CatalogIndex(c) == CHOOSE i \in DOMAIN Catalog : Catalog[i] = c

\* C19: in the sequence getDueCards returns, every card without a record
\* comes before every card with a record, the cards with records are in
\* non-decreasing level order, and cards that compare equal keep their catalog
\* order.
DueCardsOrdered ==
    Queried =>
        \A i, j \in DOMAIN call.result :
            i < j =>
                LET c == call.result[i]
                    d == call.result[j]
                IN  /\ progress[d] = Absent => progress[c] = Absent
                    /\ (progress[c] # Absent /\ progress[d] # Absent) =>
                           progress[c][1].level <= progress[d][1].level
                    /\ ((progress[c] = Absent /\ progress[d] = Absent)
                        \/ (progress[c] # Absent /\ progress[d] # Absent
                            /\ progress[c][1].level = progress[d][1].level)) =>
                           CatalogIndex(c) < CatalogIndex(d)

UnseenBeforeLeveled ==
    /\ Queried
    /\ Len(call.result) = Len(Catalog)
    /\ progress[call.result[1]] = Absent
    /\ CatalogIndex(call.result[1]) = Len(Catalog)
    /\ progress[call.result[2]] # Absent
    /\ progress[call.result[2]][1].level = 0
    /\ progress[call.result[3]][1].level = 1

\* C20: the interval table is monotonic: interval(L1) <= interval(L2) for all
\* levels L1 < L2 in 0..5, so of two reviewed cards the one with the higher
\* level is never scheduled sooner after its review.
IntervalMonotonic ==
    /\ \A l1, l2 \in 0..5 : l1 < l2 => interval(l1) <= interval(l2)
    /\ \A c, d \in Cards :
           LET p == getCardProgress(progress, c)
               q == getCardProgress(progress, d)
           IN  (p.dueAt # Absent /\ q.dueAt # Absent /\ p.level < q.level) =>
                   p.dueAt[1] - p.lastReviewedAt[1] <= q.dueAt[1] - q.lastReviewedAt[1]

HigherLevelScheduledLater ==
    \E c, d \in Cards :
        LET p == getCardProgress(progress, c)
            q == getCardProgress(progress, d)
        IN  /\ p.dueAt # Absent /\ q.dueAt # Absent
            /\ p.level = 2 /\ q.level = 3
            /\ p.dueAt[1] - p.lastReviewedAt[1] < q.dueAt[1] - q.lastReviewedAt[1]

\* C21: getCardProgress always returns a record; for a card without a stored
\* record it returns a level-0 record that is due at the time of the call, and
\* the progress map still has no record of that card afterwards.
DefaultProgressForUnseen ==
    call.op = "getCardProgress" =>
        /\ call.result.cardId = call.card
        /\ call.result.level \in 0..5
        /\ call.before # Absent => call.result = call.before[1]
        /\ call.before = Absent =>
               /\ call.result.level = 0
               /\ \/ call.result.dueAt = Absent
                  \/ call.result.dueAt[1] <= call.at
               /\ progress[call.card] = Absent

UnseenAskedAmongReviewed ==
    /\ call.op = "getCardProgress"
    /\ call.before = Absent
    /\ call.at > 0
    /\ progress[call.card] = Absent
    /\ \E c \in Cards : progress[c] # Absent /\ progress[c][1].level >= 1

\* the cards of a category
CardsOf(cat) == {c \in Cards : category(c) = cat}

\* C22: learnedCount counts the cards with level >= 1 and masteredCount those
\* with level >= 5, so masteredCount <= learnedCount <= number of catalog
\* cards, overall and within every category.
CountsOrdered ==
    LET stats == categoryStats(progress)
        Learned(S) == {c \in S : getCardProgress(progress, c).level >= 1}
        Mastered(S) == {c \in S : getCardProgress(progress, c).level >= 5}
    IN  /\ getLearnedCount(progress) = Cardinality(Learned(Cards))
        /\ getMasteredCount(progress) = Cardinality(Mastered(Cards))
        /\ getMasteredCount(progress) <= getLearnedCount(progress)
        /\ getLearnedCount(progress) <= Len(Catalog)
        /\ DOMAIN stats = {category(c) : c \in Cards}
        /\ \A cat \in DOMAIN stats :
               /\ stats[cat].total = Cardinality(CardsOf(cat))
               /\ stats[cat].learned = Cardinality(Learned(CardsOf(cat)))
               /\ stats[cat].mastered = Cardinality(Mastered(CardsOf(cat)))
               /\ stats[cat].mastered <= stats[cat].learned
               /\ stats[cat].learned <= stats[cat].total

MasteredFewerThanLearned ==
    LET stats == categoryStats(progress)
    IN  /\ call.op = "recordReview"
        /\ stats["greetings"].mastered = 1
        /\ stats["greetings"].learned = 2
        /\ stats["food"].learned = 0
        /\ getMasteredCount(progress) = 1
        /\ getLearnedCount(progress) = 2

\* C26: when exactly one of normalize(target) and normalize(spoken) is empty
\* and no alternative normalizes to the target, the result is score 0 with
\* feedback different; a target that normalizes to the empty string is not
\* rated good.
EmptyInputIsDifferent ==
    LET nt == normalizeString(target)
        ns == normalizeString(spoken)
    IN  (/\ result # NoResult
         /\ (nt = <<>>) # (ns = <<>>)
         /\ ~SomeAlternativeIs(nt)) =>
            /\ matched.score = 0
            /\ matched.feedback = "different"

\* the cards of a getDueCards result
InDeck(deck) == {deck[i] : i \in DOMAIN deck}

\* the last time a card can become due
Horizon == MaxNow + 30

\* C27: right after recordReview at time now the card is due exactly from
\* now + interval(level') on: with level' >= 1 it is not in getDueCards at now
\* nor at any time before now + interval(level'), and it is from then on; with
\* level' = 0 it is still due at now.
DueFollowsNewLevel ==
    /\ Reviewed =>
           LET p == call.result.progress
               dueFrom == call.at + ClaimedInterval(p.level)
           IN  \A t \in (call.at..(dueFrom + 1)) \cup {Horizon} :
                   call.card \in InDeck(getDueCards(Catalog, progress, t)) <=> t >= dueFrom
    /\ Queried =>
           \A c \in Cards :
               (progress[c] # Absent /\ progress[c][1].lastReviewedAt # Absent) =>
                   (c \in InDeck(call.result) <=>
                        call.at >= progress[c][1].lastReviewedAt[1]
                                       + ClaimedInterval(progress[c][1].level))

DueAgainAfterInterval ==
    /\ Queried
    /\ call.at = 1
    /\ \E c, d, e \in Cards :
           /\ progress[c] # Absent /\ progress[c][1].level = 1
           /\ progress[c][1].lastReviewedAt = Present(0)
           /\ c \in InDeck(call.result)
           /\ progress[d] # Absent /\ progress[d][1].level = 1
           /\ progress[d][1].lastReviewedAt = Present(1)
           /\ d \notin InDeck(call.result)
           /\ progress[e] # Absent /\ progress[e][1].level = 0
           /\ progress[e][1].lastReviewedAt = Present(1)
           /\ e \in InDeck(call.result)

\* C28: in review mode, after any sequence of rate and skip actions, whenever
\* the due deck is not empty the cursor currentIndex is below the deck length,
\* so the card handed to Flashcard is defined.
CursorInsideDeck ==
    Len(currentCards(progress, now)) > 0 =>
        /\ currentIndex < Len(currentCards(progress, now))
        /\ currentCard(progress, now, currentIndex) # Absent

(***************************************************************************)
(* Claims about the backend, stated over the tables and the latest         *)
(* exchange.                                                               *)
(***************************************************************************)
StartRoute == "POST /sessions/start"
EndRoute == "POST /sessions/:id/end"
CheckRoute == "GET /subscriptions/check"

Requested == http.route # "none"

\* the caller of the latest request, once authenticated
caller == http.auth.user[1]

TablesUntouched ==
    /\ practice_sessions = http.before.sessions
    /\ usage_records = http.before.usage

\* a field of the usage row of a user and a date in a table; 0 without a row
UsageField(usage, u, date, field) ==
    IF \E r \in usage : r.user_id = u /\ r.date = date
    THEN (CHOOSE r \in usage : r.user_id = u /\ r.date = date)[field]
    ELSE 0

\* the rows of a user that have not ended
ActiveRows(sessions, u) ==
    {i \in DOMAIN sessions : sessions[i].user_id = u /\ sessions[i].ended_at = Absent}

\* C23: on every route behind authentication a request without an
\* Authorization header, with a header that is not a Bearer header, with a
\* token that fails verification or with a token of a user that no longer
\* exists is answered 401, req.user is not set and next() is not called, so
\* the handler does not run; for every other request next() is called once.
AuthGuardsRoutes ==
    Requested =>
        LET valid == http.token.kind = "jwt" /\ http.token.userId \in Users
        IN  /\ ~valid =>
                   /\ http.response.status = 401
                   /\ http.auth.user = Absent
                   /\ http.auth.nextCalls = 0
                   /\ TablesUntouched
            /\ valid =>
                   /\ http.auth.nextCalls = 1
                   /\ http.auth.user = Present(http.token.userId)
                   /\ http.response.status # 401

DeletedUserRejected ==
    /\ http.route = StartRoute
    /\ http.token = [kind |-> "jwt", userId |-> "gone"]
    /\ http.response.status = 401
    /\ http.response.error = "User not found"
    /\ practice_sessions # <<>>

\* C24: when the minutes_used of the user for today is at or above the daily
\* limit of the plan, POST /sessions/start is answered 403
\* USAGE_LIMIT_REACHED with remaining_minutes 0, no practice session is
\* created and sessions_count is not incremented.
LimitReachedRejected ==
    (http.route = StartRoute /\ http.auth.nextCalls = 1) =>
        LET today == getTodayDate(http.at)
            used == UsageField(http.before.usage, caller, today, "minutes_used")
            limit == 60 * planLimits[subscriptions[caller]]
        IN  /\ used >= limit =>
                   /\ http.response.status = 403
                   /\ http.response.code = "USAGE_LIMIT_REACHED"
                   /\ http.response.remaining_minutes = 0
                   /\ practice_sessions = http.before.sessions
                   /\ UsageField(usage_records, caller, today, "sessions_count")
                          = UsageField(http.before.usage, caller, today, "sessions_count")
            /\ http.response.status = 403 => used >= limit

StartAtTheLimit ==
    /\ http.route = StartRoute
    /\ http.auth.nextCalls = 1
    /\ http.response.status = 403
    /\ UsageField(http.before.usage, caller, getTodayDate(http.at), "minutes_used")
           = 60 * planLimits.free
    /\ UsageField(usage_records, caller, getTodayDate(http.at), "sessions_count") = 0

\* C25: can_start_session of GET /subscriptions/check is true exactly when a
\* valid POST /sessions/start by the same user right afterwards would be
\* answered 201.
CheckAgreesWithStart ==
    (http.route = CheckRoute /\ http.auth.nextCalls = 1) =>
        (http.response.can_start_session <=>
            startLimited([mode |-> Absent], caller, subscriptions,
                         practice_sessions, usage_records, clock).status = 201)

\* C29: each user has at most one practice session with ended_at null, and a
\* start while the user has an active session is answered 409 and creates no
\* session.
OneActiveSession ==
    /\ \A u \in Users : Cardinality(ActiveRows(practice_sessions, u)) <= 1
    /\ (/\ http.route = StartRoute
        /\ http.auth.nextCalls = 1
        /\ ActiveRows(http.before.sessions, caller) # {}) =>
           /\ practice_sessions = http.before.sessions
           /\ (http.body.mode = Absent
                   \/ http.body.mode[1] \in {"everyday", "slang", "workplace"}) =>
                  http.response.status = 409

SecondStartRefused ==
    /\ http.route = StartRoute
    /\ http.response.status = 409
    /\ \A u \in Users : Cardinality(ActiveRows(practice_sessions, u)) = 1

\* the seconds of the sessions of a user that ended on a date, rows 1..n
RECURSIVE EndedSeconds(_, _, _, _)
EndedSeconds(sessions, u, date, n) ==
    IF n = 0 THEN 0
    ELSE EndedSeconds(sessions, u, date, n - 1)
         + IF /\ sessions[n].user_id = u
              /\ sessions[n].ended_at # Absent
              /\ getTodayDate(sessions[n].ended_at[1]) = date
           THEN sessions[n].duration_seconds
           ELSE 0

\* C30: a session's duration is added to its owner's usage exactly once: the
\* first successful end sets ended_at and adds duration_seconds / 60 to
\* today's minutes_used; a later end of the same session is answered 400 and
\* changes neither the session row nor any usage record.
EndCountsOnce ==
    /\ \A r \in usage_records :
           r.minutes_used
               = EndedSeconds(practice_sessions, r.user_id, r.date, Len(practice_sessions))
    /\ http.route = EndRoute =>
           LET known == http.id \in DOMAIN http.before.sessions
               today == getTodayDate(http.at)
           IN  /\ http.response.status = 200 =>
                      /\ known
                      /\ http.before.sessions[http.id].ended_at = Absent
                      /\ practice_sessions[http.id].ended_at = Present(http.at)
                      /\ practice_sessions[http.id].duration_seconds
                             = http.at - practice_sessions[http.id].started_at
                      /\ UsageField(usage_records, caller, today, "minutes_used")
                             = UsageField(http.before.usage, caller, today, "minutes_used")
                                   + practice_sessions[http.id].duration_seconds
               /\ (known /\ http.before.sessions[http.id].ended_at # Absent) =>
                      /\ TablesUntouched
                      /\ (/\ http.auth.nextCalls = 1
                          /\ http.before.sessions[http.id].user_id = caller) =>
                             http.response.status = 400

EndedTwice ==
    /\ http.route = EndRoute
    /\ http.auth.nextCalls = 1
    /\ http.body.wellFormed
    /\ http.response.status = 400
    /\ http.response.error = "Session already ended"
    /\ practice_sessions[http.id].duration_seconds > 0
    /\ http.at > practice_sessions[http.id].ended_at[1]

\* C31: POST /sessions/:id/end by an authenticated user who does not own the
\* session is answered 403 and leaves the session's ended_at,
\* duration_seconds, feedback and messages_count and the owner's usage record
\* as they were; an unknown id is answered 404 and nothing changes.
ForeignEndRejected ==
    (http.route = EndRoute /\ http.auth.nextCalls = 1) =>
        LET known == http.id \in DOMAIN http.before.sessions
        IN  /\ (known /\ http.before.sessions[http.id].user_id # caller) =>
                   LET was == http.before.sessions[http.id]
                       row == practice_sessions[http.id]
                       owner == was.user_id
                   IN  /\ http.body.wellFormed => http.response.status = 403
                       /\ http.response.status \in {400, 403}
                       /\ row.ended_at = was.ended_at
                       /\ row.duration_seconds = was.duration_seconds
                       /\ row.feedback = was.feedback
                       /\ row.messages_count = was.messages_count
                       /\ {r \in usage_records : r.user_id = owner}
                              = {r \in http.before.usage : r.user_id = owner}
                       /\ TablesUntouched
            /\ ~known =>
                   /\ http.body.wellFormed => http.response.status = 404
                   /\ http.response.status \in {400, 404}
                   /\ TablesUntouched

ForeignEndOfActiveSession ==
    /\ http.route = EndRoute
    /\ http.auth.nextCalls = 1
    /\ http.response.status = 403
    /\ http.body.messages_count = Present(2)
    /\ http.body.feedback = Present(TRUE)
    /\ practice_sessions[http.id].ended_at = Absent
    /\ practice_sessions[http.id].messages_count = 0
    /\ http.at > practice_sessions[http.id].started_at

\* the score range each tier promises
TierRange(feedback) ==
    IF feedback = "perfect" THEN {100}
    ELSE IF feedback = "excellent" THEN {95}
    ELSE IF feedback = "good" THEN 80..99
    ELSE IF feedback = "partial" THEN 70..99
    ELSE IF feedback = "close" THEN 60..79
    ELSE IF feedback = "tryagain" THEN 40..59
    ELSE 0..39

SubmitNeedsRating ==
    /\ sessionFeedback.step \in {1, 2, 3}
    /\ sessionFeedback.rating \in 0..5
    /\ sessionFeedback.step > 1 => sessionFeedback.rating \in 1..5
    /\ propCall.name = "onSubmit" =>
           /\ sessionFeedback.step = 3
           /\ propCall.feedback.overallRating \in 1..5
    /\ (propCall # NoCallback /\ sessionFeedback.rating = 0) =>
           propCall.name = "onSkip"

SubmittedAfterToggles ==
    /\ propCall.name = "onSubmit"
    /\ propCall.feedback.overallRating = 1
    /\ Len(propCall.feedback.helpfulAspects) = 2
    /\ propCall.feedback.improvementAreas # <<>>

(***************************************************************************)
(* Claims about useAuthProvider.                                           *)
(***************************************************************************)
Unauthenticated ==
    /\ ~authState.isAuthenticated
    /\ authState.user = Absent
    /\ authState.token = Absent

\* C33: once logout() has run, the auth state stays unauthenticated
\* (isAuthenticated false, user and token null) until a later login or
\* register succeeds, also when a refreshUser call was awaiting its
\* /auth/me response at the time of the logout.
LogoutSticks == signedOut => Unauthenticated

\* C34: a login or register call whose response is not ok throws and leaves
\* the auth state and the token stored under aussie_auth_token as they
\* were; a login or register call changes them only on an ok response, and
\* then it stores the returned token and sets isAuthenticated.
FailedLoginChangesNothing ==
    authEvent.op \in {"login", "register"} =>
        /\ authEvent.outcome = "notOk" =>
               /\ authEvent.threw
               /\ authState = authEvent.before.state
               /\ storedToken = authEvent.before.stored
        /\ (authState # authEvent.before.state \/ storedToken # authEvent.before.stored)
               => authEvent.outcome = "ok"
        /\ authEvent.outcome = "ok" =>
               /\ ~authEvent.threw
               /\ storedToken = Present(IssuedNow)
               /\ authState.token = Present(IssuedNow)
               /\ authState.isAuthenticated

FailedLoginWhileSignedIn ==
    /\ authEvent.op = "login"
    /\ authEvent.outcome = "notOk"
    /\ authState.isAuthenticated
    /\ storedToken = Present(StoredBefore)

(***************************************************************************)
(* Claims about useVoicePractice.                                          *)
(***************************************************************************)
\* C35: every final recognition result is scored against the target word
\* passed to the startListening call that began that recognition, also when
\* startListening is called with a new target while a recognition is still
\* running (start throws, stop is issued, a restart is scheduled).
ScoredAgainstOwnTarget ==
    lastScore.scored => lastScore.against = lastScore.begunBy

(***************************************************************************)
(* Claims about POST /auth/register.                                       *)
(***************************************************************************)
\* C36: after any interleaving of concurrent register requests at most one
\* user exists per lowercased email, and a well-formed request for an email
\* that is registered when the request is answered gets 409 and creates no
\* user and no subscription.
OneUserPerEmail ==
    /\ \A i, j \in DOMAIN accounts.users :
           accounts.users[i].email = accounts.users[j].email => i = j
    /\ \A id \in DOMAIN registrations :
           LET r == registrations[id]
           IN  (r.pc = "done" /\ r.body.wellFormed /\ r.taken) =>
                   /\ r.status = 409
                   /\ \A k \in DOMAIN accounts.users : accounts.users[k].id # id
                   /\ \A k \in DOMAIN accounts.subscriptions :
                          accounts.subscriptions[k].user_id # id

(***************************************************************************)
(* Claims about AussieEnglishPractice.                                     *)
(***************************************************************************)
\* C32: no backend session is leaked: whenever the view is at the selector
\* and no handler is under way, every id obtained from startBackendSession
\* has been passed to recordSessionUsage, whichever way the session was
\* left (End Session, feedback, timer expiry, disconnect, or a failed
\* conversation.startSession after the backend session was created).
NoBackendSessionLeaked ==
    (viewState = "selector" /\ practice.start = "idle" /\ practice.end = "idle")
        => obtained \subseteq recorded

====
